---- MODULE Spec2Model ----
(***************************************************************************)
(* Model of the "users" and "auth" bounded contexts: the command pipeline  *)
(* (publisher, durable queue, worker callback) and the handlers it and the *)
(* HTTP adapters invoke (create-user, login, validate-token), together     *)
(* with the SQLAlchemy repositories and the domain entities they use.      *)
(*                                                                         *)
(* Text that the code converts (email case, regular expression) is a       *)
(* sequence of one-character strings.  Opaque text (names, passwords,      *)
(* token strings) is a TLA+ string.  Identifiers are records so that a     *)
(* generated uuid4 and an externally supplied id can be told apart.        *)
(***************************************************************************)
EXTENDS Integers, Sequences, FiniteSets, TLC

VARIABLES
    users,          \* rows of table 'users' (users context database)
    tokens,         \* rows of table 'tokens' (auth context database)
    now,            \* the UTC wall clock, in hours
    uuidCount,      \* number of uuid4() values drawn so far
    queues,         \* per bounded context: messages held by the broker
    published,      \* number of messages handed to the broker so far
    wpc,            \* per worker: position of the worker process
    unacked,        \* per worker: the delivery it holds unsettled
    cb,             \* per worker: what its callback computed for that delivery
    interrupts,     \* number of process interruptions so far
    createResult,   \* what handle_create_user did, if it was the last handler called
    loginResult,    \* what handle_login_user did, if it was the last handler called
    validateResult, \* what handle_validate_token did, if it was the last handler called
    startup,        \* per worker: progress of start_consuming's connection loop
    publisher,      \* per bounded context: the publisher's connection and channel
    publishResult,  \* what the last publish call did
    shutdown,       \* per worker: the channel and connection calls of its shutdown path
    tokenCase,      \* the Token last constructed directly, and what is_expired said of it
    setup,          \* per worker: the calls start_consuming has made, in order
    closeResult,    \* what the last close() of a publisher did
    registerResult, \* what handle_register_user_for_auth_context did, if called last
    environ,        \* the process environment of the workers (os.environ)
    userCase,       \* the User last constructed directly, and what its name setter did
    connections,    \* per worker: the broker connections it opened, and their state
    sessions        \* per worker: the storage sessions it created and has not closed

vars == <<users, tokens, now, uuidCount, queues, published, wpc, unacked, cb,
          interrupts, createResult, loginResult, validateResult, startup,
          publisher, publishResult, shutdown, tokenCase, setup, closeResult,
          registerResult, environ, userCase, connections, sessions>>

(***************************************************************************)
(* Bounds of the model.                                                    *)
(***************************************************************************)
MaxUuid == 3        \* uuid4() draws
MaxPublish == 2     \* messages handed to the broker
MaxInterrupts == 1  \* worker process interruptions
MaxTime == 1        \* clock ticks (hours)

(***************************************************************************)
(* Text: str.lower() and the email pattern of User._is_valid_email.        *)
(***************************************************************************)
UpperLetters == <<"A","B","C","D","E","F","G","H","I","J","K","L","M",
                  "N","O","P","Q","R","S","T","U","V","W","X","Y","Z">>
LowerLetters == <<"a","b","c","d","e","f","g","h","i","j","k","l","m",
                  "n","o","p","q","r","s","t","u","v","w","x","y","z">>
Digits == {"0","1","2","3","4","5","6","7","8","9"}

Range(f) == {f[i] : i \in DOMAIN f}
Letters == Range(UpperLetters) \cup Range(LowerLetters)

LowerChar(c) ==
    IF c \in Range(UpperLetters)
    THEN LowerLetters[CHOOSE i \in DOMAIN UpperLetters : UpperLetters[i] = c]
    ELSE c

\* str.lower()
StrLower(s) == [i \in 1..Len(s) |-> LowerChar(s[i])]

LocalChars == Letters \cup Digits \cup {".", "_", "%", "+", "-"}
DomainChars == Letters \cup Digits \cup {".", "-"}

AllIn(s, from, to, chars) == \A i \in from..to : s[i] \in chars

\* re.match(r'^[a-zA-Z0-9._%+-]+@[a-zA-Z0-9.-]+\.[a-zA-Z]{2,}$', email):
\* '$' matches at the end of the text and also just before a final newline.
is_valid_email(email) ==
    \E n \in {Len(email), Len(email) - 1} :
        /\ n >= 0
        /\ (n = Len(email) \/ email[Len(email)] = "\n")
        /\ \E at \in 2..n : \E dot \in (at + 2)..(n - 2) :
              /\ email[at] = "@"
              /\ email[dot] = "."
              /\ AllIn(email, 1, at - 1, LocalChars)
              /\ AllIn(email, at + 1, dot - 1, DomainChars)
              /\ AllIn(email, dot + 1, n, Letters)

(***************************************************************************)
(* Identifiers and optional values.                                        *)
(***************************************************************************)
NoId == [src |-> "none", n |-> 0]           \* Python None
EmptyId == [src |-> "empty", n |-> 0]       \* the empty string ""
ExtId(k) == [src |-> "ext", n |-> k]        \* an id supplied from outside
Uuid(k) == [src |-> "uuid4", n |-> k]       \* the k-th value of uuid.uuid4()
Falsy(id) == id.src \in {"none", "empty"}   \* "not x" for an id

(***************************************************************************)
(* Password hashing and verification.                                      *)
(***************************************************************************)
Salts == {"s1", "s2"}

\* bcrypt.hashpw(password, bcrypt.gensalt()): the salt is drawn at random.
secure_hash_password(password, salt) ==
    [alg |-> "bcrypt", salt |-> salt, plain |-> password]

\* hashlib.sha256(password).hexdigest()
dummy_hash_password(password) ==
    [alg |-> "sha256", salt |-> "", plain |-> password]

\* the test suite's dummy_hasher: f"hashed_{password}"
dummy_hasher(password) ==
    [alg |-> "prefix", salt |-> "", plain |-> password]

dummy_verify_password(plain_password, hashed_password) ==
    dummy_hash_password(plain_password) = hashed_password

(***************************************************************************)
(* Exceptions.  A call's outcome carries the exception it raised, if any.  *)
(***************************************************************************)
NoExc == [type |-> "None", msg |-> ""]
Exc(type, msg) == [type |-> type, msg |-> msg]

(***************************************************************************)
(* users context: the User entity and its SQLAlchemy repository.           *)
(***************************************************************************)
NoHash == [alg |-> "none", salt |-> "", plain |-> ""]
NoUser == [id |-> NoId, name |-> "", email |-> <<>>, hashed_password |-> NoHash]

\* A User constructor that stores the email as given (what
\* CreateUserContract must tell apart from User.__init__).
User_keep_case(user_id, name, email, hashed_password) ==
    IF ~is_valid_email(email)
    THEN [raised |-> Exc("InvalidEmailError", "El email no es valido."),
          value |-> NoUser]
    ELSE [raised |-> NoExc,
          value |-> [id |-> user_id, name |-> name, email |-> email,
                     hashed_password |-> hashed_password]]

\* User.__init__: validates the email, stores it lowercased.
User(user_id, name, email, hashed_password) ==
    IF ~is_valid_email(email)
    THEN [raised |-> Exc("InvalidEmailError", "El email no es valido."),
          value |-> NoUser]
    ELSE [raised |-> NoExc,
          value |-> [id |-> user_id, name |-> name, email |-> StrLower(email),
                     hashed_password |-> hashed_password]]

\* str.strip(): the text without its leading and trailing whitespace
Whitespace == {" ", "\t", "\n"}
str_strip(s) ==
    LET kept == {i \in DOMAIN s : s[i] \notin Whitespace} IN
    IF kept = {} THEN <<>>
    ELSE SubSeq(s, CHOOSE i \in kept : \A j \in kept : i <= j,
                   CHOOSE i \in kept : \A j \in kept : j <= i)

\* A name setter that strips but accepts what is left, empty or not (what
\* NameSetterRejectsBlank must tell apart from the setter).
User_name_setter_unchecked(user, value) ==
    [raised |-> NoExc, value |-> [user EXCEPT !.name = str_strip(value)]]

\* User.name setter: "if not value or not value.strip(): raise ValueError",
\* else self._name = value.strip().  The name is a text (sequence of
\* characters) here.
User_name_setter(user, value) ==
    IF value = <<>> \/ str_strip(value) = <<>>
    THEN [raised |-> Exc("ValueError", "El nombre no puede estar vacio."), value |-> user]
    ELSE [raised |-> NoExc, value |-> [user EXCEPT !.name = str_strip(value)]]

\* SQLAlchemyUserRepository.save: add + commit; the commit fails (rollback,
\* RuntimeError) when the database is unavailable or when a constraint of
\* table 'users' is violated: primary key id, unique email.
UserRepository_save(rows, user, dbOk) ==
    IF dbOk /\ ~\E r \in rows : r.id = user.id \/ r.email = user.email
    THEN [raised |-> NoExc, rows |-> rows \cup {user}]
    ELSE [raised |-> Exc("RuntimeError",
                         "Error al guardar el usuario en la base de datos"),
          rows |-> rows]

\* SQLAlchemyUserRepository.get_by_email: exact (case-sensitive) match on the
\* stored email, the row rebuilt as a User entity.
UserRepository_get_by_email(rows, email, dbOk) ==
    IF ~dbOk
    THEN [raised |-> Exc("OperationalError", "database unavailable"),
          value |-> NoUser]
    ELSE IF \E r \in rows : r.email = email
    THEN LET r == CHOOSE r \in rows : r.email = email
         IN  User(r.id, r.name, r.email, r.hashed_password)
    ELSE [raised |-> NoExc, value |-> NoUser]

(***************************************************************************)
(* users context: CreateUserCommand and handle_create_user.                *)
(***************************************************************************)
CreateUserCommand(name, email, password, user_id) ==
    [name |-> name, email |-> email, password |-> password, user_id |-> user_id]

\* The hash_password_fn argument of handle_create_user: a hashing function,
\* one that raises, or MissingArg when the caller passes no third argument.
MissingArg == "MISSING"
HashFns == {"dummy_hasher", "dummy_hash_password", "raises"}

ApplyHashFn(hash_password_fn, password) ==
    CASE hash_password_fn = "dummy_hasher" ->
            [raised |-> NoExc, value |-> dummy_hasher(password)]
      [] hash_password_fn = "dummy_hash_password" ->
            [raised |-> NoExc, value |-> dummy_hash_password(password)]
      [] OTHER ->
            [raised |-> Exc("Exception", "hash failed"), value |-> NoHash]

CreateOutcome(raised, ret, rows, saveCalls, saved, uuidDrawn) ==
    [raised |-> raised, ret |-> ret, rows |-> rows, saveCalls |-> saveCalls,
     saved |-> saved, uuidDrawn |-> uuidDrawn]

\* handle_create_user(command, user_repository, hash_password_fn).
\* rows: table 'users' behind user_repository; uuid: what uuid.uuid4() yields;
\* dbOk: whether the database accepts the commit.
handle_create_user(command, rows, hash_password_fn, uuid, dbOk) ==
    IF hash_password_fn = MissingArg
    THEN \* required positional argument not supplied: the call itself raises
         CreateOutcome(Exc("TypeError", "missing 1 required positional argument"),
                       NoId, rows, 0, NoUser, 0)
    ELSE
    LET hashed == ApplyHashFn(hash_password_fn, command.password) IN
    IF hashed.raised # NoExc
    THEN CreateOutcome(Exc("ValueError", "Error al hashear la contrasena"),
                       NoId, rows, 0, NoUser, 0)
    ELSE
    LET user_id == uuid
        user == User(user_id, command.name, command.email, hashed.value) IN
    IF user.raised # NoExc
    THEN CreateOutcome(Exc("ValueError", "Error al crear la entidad de usuario"),
                       NoId, rows, 0, NoUser, 1)
    ELSE
    LET saved == UserRepository_save(rows, user.value, dbOk) IN
    IF saved.raised # NoExc
    THEN CreateOutcome(Exc("RuntimeError",
                           "Error al guardar el usuario en el repositorio"),
                       NoId, saved.rows, 1, user.value, 1)
    ELSE CreateOutcome(NoExc, user_id, saved.rows, 1, user.value, 1)

(***************************************************************************)
(* auth context: timestamps, the Token entity and its SQLAlchemy           *)
(* repository.  A datetime is its instant (hours, UTC wall clock) and      *)
(* whether it carries tzinfo.                                              *)
(***************************************************************************)
NoTime == [t |-> -1, aware |-> FALSE, none |-> TRUE]        \* Python None
DateTime(t, aware) == [t |-> t, aware |-> aware, none |-> FALSE]

\* datetime.replace(tzinfo=timezone.utc)
ReplaceTzUtc(dt) == [dt EXCEPT !.aware = TRUE]

\* datetime.isoformat(): the offset is printed only for an aware value.
isoformat(dt) ==
    [t |-> dt.t, offset |-> IF dt.aware THEN "+00:00" ELSE ""]
NoIso == [t |-> -1, offset |-> "None"]

NoToken == [id |-> NoId, user_id |-> NoId, access_token |-> "",
            expires_at |-> NoTime]

\* A Token constructor that validates nothing (what TokenSavedOnlyOnSuccess
\* must tell apart from Token.__init__).
Token_unvalidated(token_id, user_id, access_token, expires_at, clock) ==
    [raised |-> NoExc,
     value |-> [id |-> token_id, user_id |-> user_id,
                access_token |-> access_token, expires_at |-> expires_at]]

\* Token.__init__, run when the clock reads `clock`: all fields required,
\* then "expires_at <= datetime.now(timezone.utc)", a comparison Python
\* refuses (TypeError) between a naive and an aware datetime.
Token(token_id, user_id, access_token, expires_at, clock) ==
    IF Falsy(token_id) \/ Falsy(user_id) \/ access_token = "" \/ expires_at.none
    THEN [raised |-> Exc("ValueError", "Todos los campos del token son obligatorios."),
          value |-> NoToken]
    ELSE IF ~expires_at.aware
    THEN [raised |-> Exc("TypeError",
                         "can't compare offset-naive and offset-aware datetimes"),
          value |-> NoToken]
    ELSE IF expires_at.t <= clock
    THEN [raised |-> Exc("ValueError", "La fecha de expiracion debe ser futura."),
          value |-> NoToken]
    ELSE [raised |-> NoExc,
          value |-> [id |-> token_id, user_id |-> user_id,
                     access_token |-> access_token, expires_at |-> expires_at]]

\* An is_expired that still reports a token valid at its expiry instant
\* (what ExpiredFromExpiryOnwards must tell apart from Token.is_expired).
is_expired_after_only(token, clock) == token.expires_at.t < clock

\* Token.is_expired, run when the clock reads `clock`: a naive expiry is
\* read as UTC.
is_expired(token, clock) ==
    LET expires_at == IF ~token.expires_at.aware
                      THEN ReplaceTzUtc(token.expires_at)
                      ELSE token.expires_at
    IN  expires_at.t <= clock

\* A row of table 'tokens': column expires_at is DateTime without time zone,
\* so the stored value is naive.
TokenModel(token) ==
    [id |-> token.id, user_id |-> token.user_id,
     access_token |-> token.access_token,
     expires_at |-> [token.expires_at EXCEPT !.aware = FALSE]]

\* A save on a table 'tokens' whose access_token column is not unique: only
\* the primary key can reject the row (what UniqueAccessTokens must tell
\* apart from the table as TokenModel declares it).
TokenRepository_save_not_unique(rows, token, dbOk) ==
    IF dbOk /\ ~\E r \in rows : r.id = token.id
    THEN [raised |-> NoExc, rows |-> rows \cup {TokenModel(token)}]
    ELSE [raised |-> Exc("RuntimeError",
                         "Error al guardar el token en la base de datos"),
          rows |-> rows]

\* SQLAlchemyTokenRepository.save: add + commit; the commit fails (rollback,
\* RuntimeError) when the database is unavailable or when a constraint of
\* table 'tokens' is violated: primary key id, unique access_token.
TokenRepository_save(rows, token, dbOk) ==
    IF dbOk /\ ~\E r \in rows : r.id = token.id \/ r.access_token = token.access_token
    THEN [raised |-> NoExc, rows |-> rows \cup {TokenModel(token)}]
    ELSE [raised |-> Exc("RuntimeError",
                         "Error al guardar el token en la base de datos"),
          rows |-> rows]

\* SQLAlchemyTokenRepository.find_by_access_token: the row's expiry is made
\* aware (UTC) and the row is rebuilt through Token.__init__.
TokenRepository_find_by_access_token(rows, access_token, clock, dbOk) ==
    IF ~dbOk
    THEN [raised |-> Exc("OperationalError", "database unavailable"),
          value |-> NoToken]
    ELSE IF \E r \in rows : r.access_token = access_token
    THEN LET token_model == CHOOSE r \in rows : r.access_token = access_token
             expires_at_aware == ReplaceTzUtc(token_model.expires_at)
         IN  Token(token_model.id, token_model.user_id,
                   token_model.access_token, expires_at_aware, clock)
    ELSE [raised |-> NoExc, value |-> NoToken]

(***************************************************************************)
(* auth context: handle_validate_token.                                    *)
(***************************************************************************)
NullResult == [is_null |-> TRUE, is_valid |-> FALSE, user_id |-> NoId,
               expires_at |-> NoIso]

ValidateOutcome(raised, value, calls, rows) == [raised |-> raised, value |-> value, calls |-> calls, rows |-> rows]

\* A token query that reaps on the way: it deletes the row it was asked
\* about when that row cannot be returned as valid (what
\* ValidateIsReadOnly must tell apart from handle_validate_token).
handle_validate_token_reaps(access_token, rows, clock, dbOk) ==
    LET found == TokenRepository_find_by_access_token(rows, access_token, clock, dbOk)
        held == {r \in rows : r.access_token = access_token}
    IN  IF found.raised # NoExc /\ dbOk
        THEN ValidateOutcome(NoExc, NullResult, <<"find_by_access_token", "delete">>,
                             rows \ held)
        ELSE IF found.raised # NoExc
        THEN ValidateOutcome(Exc("RuntimeError", "Error al validar el token"), NullResult,
                             <<"find_by_access_token">>, rows)
        ELSE IF found.value = NoToken
        THEN ValidateOutcome(NoExc, NullResult, <<"find_by_access_token">>, rows)
        ELSE ValidateOutcome(NoExc,
                             [is_null |-> FALSE, is_valid |-> TRUE,
                              user_id |-> found.value.user_id,
                              expires_at |-> isoformat(found.value.expires_at)],
                             <<"find_by_access_token">>, rows)

\* handle_validate_token(query, token_repository), run at `clock`: its one
\* call on the repository is find_by_access_token; `rows` is table 'tokens'
\* when it returns.
handle_validate_token(access_token, rows, clock, dbOk) ==
    LET found == TokenRepository_find_by_access_token(rows, access_token, clock, dbOk)
        token == found.value
        calls == <<"find_by_access_token">>
    IN  IF found.raised # NoExc
        THEN ValidateOutcome(Exc("RuntimeError", "Error al validar el token"), NullResult,
                             calls, rows)
        ELSE IF token = NoToken
        THEN ValidateOutcome(NoExc, NullResult, calls, rows)
        ELSE IF is_expired(token, clock)
        THEN ValidateOutcome(NoExc, NullResult, calls, rows)
        ELSE ValidateOutcome(NoExc,
                             [is_null |-> FALSE, is_valid |-> TRUE,
                              user_id |-> token.user_id,
                              expires_at |-> isoformat(token.expires_at)],
                             calls, rows)

(***************************************************************************)
(* auth context: LoginCommand, the injected collaborators of               *)
(* handle_login_user and the handler itself.                               *)
(***************************************************************************)
LoginCommand(email, password) == [email |-> email, password |-> password]

\* verify_password_fn: the application's dummy_verify_password, the test
\* suite's mock_verify_password and MagicMock(return_value=False), or a
\* verifier that fails internally.
VerifyFns == {"dummy_verify_password", "mock_verify_password", "returns_false",
              "raises", "raises_ValueError"}
CorrectHashedPassword == [alg |-> "raw", salt |-> "", plain |-> "correct_hashed_password"]

ApplyVerifyFn(verify_password_fn, plain_password, hashed_password) ==
    CASE verify_password_fn = "dummy_verify_password" ->
            [raised |-> NoExc,
             value |-> dummy_verify_password(plain_password, hashed_password)]
      [] verify_password_fn = "mock_verify_password" ->
            [raised |-> NoExc, value |-> (hashed_password = CorrectHashedPassword)]
      [] verify_password_fn = "returns_false" ->
            [raised |-> NoExc, value |-> FALSE]
      [] verify_password_fn = "raises_ValueError" ->
            [raised |-> Exc("ValueError", "verifier failed"), value |-> FALSE]
      [] OTHER ->
            [raised |-> Exc("Exception", "verifier failed"), value |-> FALSE]

\* generate_token_fn: secrets.token_urlsafe(32) or a mock returns a string
\* (the string is the caller's draw), a mock may return "" or raise.
TokenStrings == {"tokA", "tokB"}
GenerateOutcomes ==
    [raises : {FALSE}, value : TokenStrings \cup {""}] \cup {[raises |-> TRUE, value |-> ""]}

\* calculate_expires_fn(hours): the application's calculate_expires_at is
\* datetime.utcnow() + timedelta(hours), a naive value; the test suite's
\* mock_calculate_expires is datetime.now(timezone.utc) + timedelta(hours).
ExpiresFns == {"calculate_expires_at", "mock_calculate_expires", "raises"}

ApplyExpiresFn(calculate_expires_fn, hours, clock) ==
    CASE calculate_expires_fn = "calculate_expires_at" ->
            [raised |-> NoExc, value |-> DateTime(clock + hours, FALSE)]
      [] calculate_expires_fn = "mock_calculate_expires" ->
            [raised |-> NoExc, value |-> DateTime(clock + hours, TRUE)]
      [] OTHER ->
            [raised |-> Exc("Exception", "expiry failed"), value |-> NoTime]

ExpiryHours == 1    \* calculate_expires_fn(1)

\* An error for the unknown email that names the cause (what
\* NoAccountEnumeration must tell apart from UserNotFoundError).
UserNotFoundError_distinct == Exc("ValueError", "Usuario no encontrado.")

\* raise ValueError("Credenciales invalidas.") of step 2 (no such user) and
\* of step 3 (the verifier returned false)
UserNotFoundError == Exc("ValueError", "Credenciales invalidas.")
PasswordMismatchError == Exc("ValueError", "Credenciales invalidas.")

LoginOutcome(raised, ret, rows, calls, lookup, user, verdict, saved, uuidDrawn) ==
    [raised |-> raised, ret |-> ret, rows |-> rows, calls |-> calls,
     lookup |-> lookup, user |-> user, verdict |-> verdict, saved |-> saved,
     uuidDrawn |-> uuidDrawn]

\* handle_login_user(command, user_repository, token_repository,
\*                   verify_password_fn, hash_password_fn, generate_token_fn,
\*                   calculate_expires_fn), run at `clock`.
\* userRows, tokenRows: the tables behind the two repositories; generated:
\* what generate_token_fn does; uuid: what uuid.uuid4() yields.
\* In the outcome, calls lists the collaborators invoked, in order; lookup
\* is what get_by_email did ("raised", "none", "found") and verdict what the
\* verifier did ("not_called", "raised", "false", "true").
handle_login_user(command, userRows, tokenRows, clock, verify_password_fn, generated, calculate_expires_fn, uuid, usersDbOk, tokensDbOk) ==
    LET looked == UserRepository_get_by_email(userRows, command.email, usersDbOk)
        user == looked.value
        c1 == <<"get_by_email">>
    IN
    IF looked.raised # NoExc
    THEN LoginOutcome(Exc("RuntimeError", "Error al buscar el usuario en el repositorio"),
                      "", tokenRows, c1, "raised", NoUser, "not_called", NoToken, 0)
    ELSE IF user = NoUser
    THEN LoginOutcome(UserNotFoundError,
                      "", tokenRows, c1, "none", NoUser, "not_called", NoToken, 0)
    ELSE
    LET verified == ApplyVerifyFn(verify_password_fn, command.password,
                                  user.hashed_password)
        c2 == Append(c1, "verify_password_fn")
    IN
    IF verified.raised.type = "ValueError"
    THEN \* "except ValueError: raise"
         LoginOutcome(verified.raised, "", tokenRows, c2, "found", user, "raised",
                      NoToken, 0)
    ELSE IF verified.raised # NoExc
    THEN LoginOutcome(Exc("RuntimeError", "Error al verificar la contrasena"),
                      "", tokenRows, c2, "found", user, "raised", NoToken, 0)
    ELSE IF ~verified.value
    THEN LoginOutcome(PasswordMismatchError,
                      "", tokenRows, c2, "found", user, "false", NoToken, 0)
    ELSE
    LET c3 == Append(c2, "generate_token_fn") IN
    IF generated.raises
    THEN LoginOutcome(Exc("RuntimeError", "Error al generar el token de acceso"),
                      "", tokenRows, c3, "found", user, "true", NoToken, 0)
    ELSE
    LET access_token == generated.value
        expires == ApplyExpiresFn(calculate_expires_fn, ExpiryHours, clock)
        c4 == Append(c3, "calculate_expires_fn")
    IN
    IF expires.raised # NoExc
    THEN LoginOutcome(Exc("RuntimeError", "Error al calcular la expiracion del token"),
                      "", tokenRows, c4, "found", user, "true", NoToken, 0)
    ELSE
    LET token == Token(uuid, user.id, access_token, expires.value, clock) IN
    IF token.raised # NoExc
    THEN \* not caught: the Token constructor's exception escapes as it is
         LoginOutcome(token.raised, "", tokenRows, c4, "found", user, "true",
                      NoToken, 1)
    ELSE
    LET saved == TokenRepository_save(tokenRows, token.value, tokensDbOk)
        c5 == Append(c4, "save")
    IN
    IF saved.raised # NoExc
    THEN LoginOutcome(Exc("RuntimeError", "Error al guardar el token en el repositorio"),
                      "", saved.rows, c5, "found", user, "true", token.value, 1)
    ELSE LoginOutcome(NoExc, access_token, saved.rows, c5, "found", user, "true",
                      token.value, 1)

RegisterOutcome(raised, ret, rows, calls, saved, uuidDrawn) ==
    [raised |-> raised, ret |-> ret, rows |-> rows, calls |-> calls,
     saved |-> saved, uuidDrawn |-> uuidDrawn]

\* handle_register_user_for_auth_context(user_id, user_email,
\*     token_repository, generate_token_fn, calculate_expires_fn), run at
\* `clock`.  The whole body is one try block: "except ValueError: raise",
\* "except Exception: raise RuntimeError".  tokenRows: the table behind the
\* repository; saveOk: whether the repository's save returns.
handle_register_user_for_auth_context(user_id, tokenRows, clock, generated, calculate_expires_fn, uuid, saveOk) ==
    LET wrapped == Exc("RuntimeError", "Error al procesar el registro de usuario en auth")
        c1 == <<"generate_token_fn">>
    IN
    IF generated.raises
    THEN RegisterOutcome(wrapped, "", tokenRows, c1, NoToken, 0)
    ELSE IF generated.value = ""
    THEN RegisterOutcome(Exc("ValueError",
                             "La funcion de generacion de tokens devolvio un valor vacio."),
                         "", tokenRows, c1, NoToken, 0)
    ELSE
    LET access_token == generated.value
        expires == ApplyExpiresFn(calculate_expires_fn, ExpiryHours, clock)
        c2 == Append(c1, "calculate_expires_fn")
    IN
    IF expires.raised # NoExc
    THEN RegisterOutcome(wrapped, "", tokenRows, c2, NoToken, 0)
    ELSE
    LET token == Token(uuid, user_id, access_token, expires.value, clock) IN
    IF token.raised.type = "ValueError"
    THEN RegisterOutcome(token.raised, "", tokenRows, c2, NoToken, 1)
    ELSE IF token.raised # NoExc
    THEN RegisterOutcome(wrapped, "", tokenRows, c2, NoToken, 1)
    ELSE
    LET saved == TokenRepository_save(tokenRows, token.value, saveOk)
        c3 == Append(c2, "save")
    IN
    IF saved.raised # NoExc
    THEN RegisterOutcome(wrapped, "", saved.rows, c3, token.value, 1)
    ELSE RegisterOutcome(NoExc, access_token, saved.rows, c3, token.value, 1)

(***************************************************************************)
(* Messaging: message bodies, the wire envelope and the publisher.         *)
(* A body is the bytes on the wire: whether they decode as UTF-8, what     *)
(* json.loads makes of the text, and for a JSON object its "type" and      *)
(* "data" members.  `has` lists the keys present in "data".                *)
(***************************************************************************)
NoData == [present |-> FALSE, has |-> {}, name |-> "", email |-> <<>>,
           password |-> "", user_id |-> NoId]
Data(has, name, email, password, user_id) ==
    [present |-> TRUE, has |-> has, name |-> name, email |-> email,
     password |-> password, user_id |-> user_id]

Envelope(type, data) ==
    [utf8 |-> TRUE, json |-> "object", type |-> type, data |-> data]
BadUtf8 == [utf8 |-> FALSE, json |-> "invalid", type |-> "None", data |-> NoData]
BadJson == [utf8 |-> TRUE, json |-> "invalid", type |-> "None", data |-> NoData]
JsonArray == [utf8 |-> TRUE, json |-> "array", type |-> "None", data |-> NoData]

USER_COMMANDS_QUEUE == "user_commands"
AUTH_COMMANDS_QUEUE == "auth_commands"

\* RabbitMQPublisher.publish_create_user: the envelope json.dumps produces.
\* The command's user_id is not part of it.
publish_create_user(command) ==
    Envelope("CreateUserCommand",
             Data({"name", "email", "password"}, command.name, command.email,
                  command.password, NoId))

\* RabbitMQAuthPublisher.publish_command
publish_command(command_type, command_data) ==
    Envelope(command_type, command_data)

\* the queue each context's publisher declares and publishes to
QueueOf(ctx) == IF ctx = "users" THEN USER_COMMANDS_QUEUE ELSE AUTH_COMMANDS_QUEUE

\* queue_declare(queue=..., durable=True) of _connect
queue_declare_args(ctx) == [queue |-> QueueOf(ctx), durable |-> TRUE]

\* A publisher whose messages do not survive a broker restart (what
\* LazyConnectDurablePersistent must tell apart from the code's properties).
basic_publish_args_transient(ctx) ==
    [exchange |-> "", routing_key |-> QueueOf(ctx), delivery_mode |-> 1]

\* basic_publish(exchange='', routing_key=..., properties=BasicProperties(delivery_mode=2))
basic_publish_args(ctx) ==
    [exchange |-> "", routing_key |-> QueueOf(ctx), delivery_mode |-> 2]

\* RabbitMQPublisher.__init__ / RabbitMQAuthPublisher.__init__
\* `declared`: whether queue_declare has succeeded on the channel held
NewPublisher == [connection |-> "none", channel |-> "none", declared |-> FALSE]

\* the connection is closed, and with it its channel
ClosedPublisher == [connection |-> "closed", channel |-> "closed", declared |-> FALSE]

ConnectResult(pub, raised, calls) == [pub |-> pub, raised |-> raised, calls |-> calls]

BrokerConnectOutcomes ==
    {"connected", "AMQPConnectionError", "channel_fails", "declare_fails", "declare_stream_lost"}

\* A _connect after whose failed queue_declare the channel stays usable
\* (what SendsOnlyOnDeclaredChannel must tell apart from a broker that
\* closes the channel on which it refuses a declaration).
publisher_connect_channel_survives(pub, outcome) ==
    IF pub.connection = "open"
    THEN ConnectResult(pub, NoExc, <<>>)
    ELSE IF outcome = "connected"
    THEN ConnectResult([connection |-> "open", channel |-> "open", declared |-> TRUE], NoExc,
                       <<"BlockingConnection", "channel", "queue_declare">>)
    ELSE IF outcome = "AMQPConnectionError"
    THEN ConnectResult(pub, Exc("AMQPConnectionError", "connection refused"),
                       <<"BlockingConnection">>)
    ELSE ConnectResult([connection |-> "open", channel |-> "open", declared |-> FALSE],
                       Exc("ChannelClosedByBroker", "queue_declare refused"),
                       <<"BlockingConnection", "channel", "queue_declare">>)

\* _connect: nothing to do while a connection is held and not closed;
\* otherwise BlockingConnection, channel(), queue_declare in that order,
\* each of which may raise.  A failed channel() leaves self._channel as it
\* was; a queue_declare the broker refuses closes the channel, one that
\* fails because the stream is lost closes the connection.
publisher_connect(pub, outcome) ==
    IF pub.connection = "open"
    THEN ConnectResult(pub, NoExc, <<>>)
    ELSE IF outcome = "AMQPConnectionError"
    THEN ConnectResult(pub, Exc("AMQPConnectionError", "connection refused"),
                       <<"BlockingConnection">>)
    ELSE IF outcome = "channel_fails"
    THEN ConnectResult([pub EXCEPT !.connection = "open"],
                       Exc("AMQPChannelError", "channel not opened"),
                       <<"BlockingConnection", "channel">>)
    ELSE IF outcome = "declare_fails"
    THEN ConnectResult([connection |-> "open", channel |-> "closed", declared |-> FALSE],
                       Exc("ChannelClosedByBroker", "queue_declare refused"),
                       <<"BlockingConnection", "channel", "queue_declare">>)
    ELSE IF outcome = "declare_stream_lost"
    THEN ConnectResult(ClosedPublisher, Exc("AMQPConnectionError", "stream lost"),
                       <<"BlockingConnection", "channel", "queue_declare">>)
    ELSE ConnectResult([connection |-> "open", channel |-> "open", declared |-> TRUE], NoExc,
                       <<"BlockingConnection", "channel", "queue_declare">>)

\* A publisher that lets the broker's connection error through unwrapped
\* (what PublishOnceOrRuntimeError must tell apart from the except clauses).
wrap_publish_error_unwrapped(exc) ==
    IF exc.type = "AMQPConnectionError" THEN exc
    ELSE Exc("RuntimeError", "Error al publicar el comando en RabbitMQ")

\* the two except clauses of publish_create_user / publish_command
wrap_publish_error(exc) ==
    IF exc.type = "AMQPConnectionError"
    THEN Exc("RuntimeError", "No se pudo conectar a RabbitMQ")
    ELSE Exc("RuntimeError", "Error al publicar el comando en RabbitMQ")

PublishOutcome(raised, pub, calls, sent) == [raised |-> raised, pub |-> pub, calls |-> calls, sent |-> sent]

BasicPublishOutcomes == {"ok", "AMQPConnectionError", "Exception"}

\* The try block shared by publish_create_user and publish_command:
\* _connect(), json.dumps of the envelope, one basic_publish; every
\* exception is replaced by a RuntimeError.  'sent' is what the broker
\* accepted during the call.
publish(pub, envelope, connectOutcome, serializes, publishOutcome) ==
    LET c == publisher_connect(pub, connectOutcome) IN
    IF c.raised # NoExc
    THEN PublishOutcome(wrap_publish_error(c.raised), c.pub, c.calls, <<>>)
    ELSE IF ~serializes
    THEN PublishOutcome(wrap_publish_error(Exc("TypeError", "not JSON serializable")),
                        c.pub, c.calls, <<>>)
    ELSE IF c.pub.channel = "none"
    THEN PublishOutcome(wrap_publish_error(Exc("AttributeError", "NoneType has no basic_publish")),
                        c.pub, c.calls, <<>>)
    ELSE IF c.pub.channel = "closed"
    THEN PublishOutcome(wrap_publish_error(Exc("ChannelWrongStateError", "channel is closed")),
                        c.pub, c.calls \o <<"basic_publish">>, <<>>)
    ELSE IF publishOutcome = "AMQPConnectionError"
    THEN PublishOutcome(wrap_publish_error(Exc("AMQPConnectionError", "stream lost")),
                        ClosedPublisher,
                        c.calls \o <<"basic_publish">>, <<>>)
    ELSE IF publishOutcome = "Exception"
    THEN PublishOutcome(wrap_publish_error(Exc("Exception", "publish failed")),
                        c.pub, c.calls \o <<"basic_publish">>, <<>>)
    ELSE PublishOutcome(NoExc, c.pub, c.calls \o <<"basic_publish">>, <<envelope>>)

CloseOutcome(pub, raised, calls) == [pub |-> pub, raised |-> raised, calls |-> calls]

\* A close() without its guard: it calls connection.close() on whatever
\* the publisher holds, and that call fails on None and on a connection
\* that is closed already (what CloseIsIdempotent must tell apart from
\* the guarded close).
publisher_close_unguarded(pub) ==
    IF pub.connection = "open"
    THEN CloseOutcome(ClosedPublisher, NoExc,
                      <<"connection.close">>)
    ELSE IF pub.connection = "closed"
    THEN CloseOutcome(pub, Exc("ConnectionWrongStateError", "already closed"),
                      <<"connection.close">>)
    ELSE CloseOutcome(pub, Exc("AttributeError", "NoneType has no close"), <<>>)

\* RabbitMQPublisher.close / RabbitMQAuthPublisher.close: connection.close()
\* only "if self._connection and not self._connection.is_closed"
publisher_close(pub) ==
    IF pub.connection = "open"
    THEN CloseOutcome(ClosedPublisher, NoExc,
                      <<"connection.close">>)
    ELSE CloseOutcome(pub, NoExc, <<>>)

(***************************************************************************)
(* users worker: process_create_user_command and callback.                 *)
(***************************************************************************)
NoCreate == [raised |-> NoExc, ret |-> NoId, rows |-> {}, saveCalls |-> 0,
             saved |-> NoUser, uuidDrawn |-> 0]

ProcessOutcome(raised, swallowed, handlerCalled, handler, rows) ==
    [raised |-> raised, swallowed |-> swallowed, handlerCalled |-> handlerCalled,
     handler |-> handler, rows |-> rows]

\* A process_create_user_command that inserts a row under a fresh uuid on
\* every delivery, whatever the table holds (what OneUserPerSuppliedId must
\* tell apart from process_create_user_command).
process_create_user_command_insert_always(command_data, rows, hashRaises, salt, repoOk, uuid, dbOk) ==
    IF ~command_data.present \/ "email" \notin command_data.has
    THEN ProcessOutcome(NoExc, "none", FALSE, NoCreate, rows)
    ELSE LET row == [id |-> uuid, name |-> command_data.name,
                     email |-> StrLower(command_data.email),
                     hashed_password |-> secure_hash_password(command_data.password, salt)]
         IN  ProcessOutcome(NoExc, "none", TRUE,
                            CreateOutcome(NoExc, uuid, rows \cup {row}, 1, row, 1),
                            rows \cup {row})

\* process_create_user_command(command_data).  rows: table 'users';
\* hashRaises, salt: what bcrypt does; repoOk: whether get_user_repository
\* returns; uuid, dbOk: as for handle_create_user.  `raised` is the
\* exception that escapes to the callback; `swallowed` names the step whose
\* exception the function caught and logged ("none" when no step raised).
process_create_user_command(command_data, rows, hashRaises, salt, repoOk, uuid, dbOk) ==
    IF ~command_data.present
    THEN ProcessOutcome(Exc("TypeError", "'NoneType' object is not subscriptable"),
                        "none", FALSE, NoCreate, rows)
    ELSE IF "name" \notin command_data.has
    THEN ProcessOutcome(Exc("KeyError", "name"), "none", FALSE, NoCreate, rows)
    ELSE IF "password" \notin command_data.has \/ hashRaises
    THEN \* caught: logged, return
         ProcessOutcome(NoExc, "hashing", FALSE, NoCreate, rows)
    ELSE IF "email" \notin command_data.has
    THEN ProcessOutcome(Exc("KeyError", "email"), "none", FALSE, NoCreate, rows)
    ELSE
    LET hashed_password == secure_hash_password(command_data.password, salt)
        command == CreateUserCommand(
                       command_data.name, command_data.email, hashed_password,
                       IF "user_id" \in command_data.has
                       THEN command_data.user_id ELSE NoId)
    IN
    IF ~repoOk
    THEN \* caught: logged, return
         ProcessOutcome(NoExc, "repository", FALSE, NoCreate, rows)
    ELSE
    \* handle_create_user(command, user_repository): two arguments; whatever
    \* the handler raises is caught and logged.
    LET handled == handle_create_user(command, rows, MissingArg, uuid, dbOk)
    IN  ProcessOutcome(NoExc, IF handled.raised = NoExc THEN "none" ELSE "handler",
                       TRUE, handled, handled.rows)

Ack == [method |-> "basic_ack", requeue |-> FALSE]

\* A basic_nack that always asks the broker to requeue (what
\* SettledExactlyOnce must tell apart from basic_nack(requeue=False)).
Nack_requeues(requeue) == [method |-> "basic_nack", requeue |-> TRUE]

Nack(requeue) == [method |-> "basic_nack", requeue |-> requeue]

CallbackOutcome(raised, calls, branch, swallowed, handlerCalled, handler, rows) ==
    [raised |-> raised, calls |-> calls, branch |-> branch, swallowed |-> swallowed,
     handlerCalled |-> handlerCalled, handler |-> handler, rows |-> rows]

\* A users callback that acknowledges a body json.loads cannot parse
\* (what MalformedBodyRejected must tell apart from callback).
users_callback_ack_bad_json(body, rows, hashRaises, salt, repoOk, uuid, dbOk) ==
    [calls |-> IF body.utf8 /\ body.json = "invalid" THEN <<Ack>> ELSE <<Nack(FALSE)>>,
     raised |-> NoExc, branch |-> "ok", swallowed |-> "none", handlerCalled |-> FALSE,
     handler |-> NoCreate, rows |-> rows]

\* A users callback that hands every JSON object to
\* process_create_user_command, whatever its "type" (what
\* UnknownTypeAckedNotDispatched must tell apart from callback).
users_callback_dispatch_any(body, rows, hashRaises, salt, repoOk, uuid, dbOk) ==
    IF ~body.utf8 \/ body.json # "object"
    THEN CallbackOutcome(NoExc, <<Nack(FALSE)>>, "Exception", "none", FALSE,
                         NoCreate, rows)
    ELSE LET p == process_create_user_command(body.data, rows, hashRaises, salt,
                                              repoOk, uuid, dbOk)
         IN  CallbackOutcome(NoExc, IF p.raised # NoExc THEN <<Nack(FALSE)>> ELSE <<Ack>>,
                             IF p.raised # NoExc THEN "Exception" ELSE "ok",
                             p.swallowed, p.handlerCalled, p.handler, p.rows)

\* callback(ch, method, properties, body) of the users worker.
\* calls: the settlement calls made on the channel, in order; raised: the
\* exception that escapes the callback; branch: the except clause taken.
users_callback(body, rows, hashRaises, salt, repoOk, uuid, dbOk) ==
    IF ~body.utf8
    THEN \* UnicodeDecodeError: "except Exception"
         CallbackOutcome(NoExc, <<Nack(FALSE)>>, "Exception", "none", FALSE,
                         NoCreate, rows)
    ELSE IF body.json = "invalid"
    THEN CallbackOutcome(NoExc, <<Nack(FALSE)>>, "JSONDecodeError", "none", FALSE,
                         NoCreate, rows)
    ELSE IF body.json # "object"
    THEN \* message_data.get: AttributeError
         CallbackOutcome(NoExc, <<Nack(FALSE)>>, "Exception", "none", FALSE,
                         NoCreate, rows)
    ELSE IF body.type = "CreateUserCommand"
    THEN LET p == process_create_user_command(body.data, rows, hashRaises, salt,
                                              repoOk, uuid, dbOk)
         IN  IF p.raised # NoExc
             THEN CallbackOutcome(NoExc, <<Nack(FALSE)>>, "Exception", p.swallowed,
                                  p.handlerCalled, p.handler, p.rows)
             ELSE CallbackOutcome(NoExc, <<Ack>>, "ok", p.swallowed,
                                  p.handlerCalled, p.handler, p.rows)
    ELSE \* unknown command type: logged
         CallbackOutcome(NoExc, <<Ack>>, "ok", "none", FALSE, NoCreate, rows)

(***************************************************************************)
(* auth worker: callback.  It dispatches to dummy_command_processor, which *)
(* only prints.                                                            *)
(***************************************************************************)
auth_callback(body) ==
    IF ~body.utf8
    THEN CallbackOutcome(NoExc, <<Nack(FALSE)>>, "Exception", "none", FALSE,
                         NoCreate, {})
    ELSE IF body.json = "invalid"
    THEN CallbackOutcome(NoExc, <<Nack(FALSE)>>, "JSONDecodeError", "none", FALSE,
                         NoCreate, {})
    ELSE IF body.json # "object"
    THEN CallbackOutcome(NoExc, <<Nack(FALSE)>>, "Exception", "none", FALSE,
                         NoCreate, {})
    ELSE IF body.type # "None" /\ body.type # "" /\ body.data.present /\ body.data.has # {}
    THEN CallbackOutcome(NoExc, <<Ack>>, "ok", "none", TRUE, NoCreate, {})
    ELSE CallbackOutcome(NoExc, <<Ack>>, "ok", "none", FALSE, NoCreate, {})

(***************************************************************************)
(* Worker startup: start_consuming / start_consuming_auth up to the        *)
(* consume loop.  A startup record holds the position in the function,     *)
(* the number of the current connection attempt, the number of             *)
(* time.sleep(retry_delay) calls made and the exception that left the      *)
(* function.                                                               *)
(***************************************************************************)
ShutdownCall(call, at) == [call |-> call, at |-> at]

\* A shutdown path that rejects the delivery it holds before closing (what
\* InterruptedDeliveryRedelivered must tell apart from the code's path).
shutdown_path_rejects(ctx) ==
    <<ShutdownCall("basic_nack", "except KeyboardInterrupt"),
      ShutdownCall("channel.stop_consuming", "finally"),
      ShutdownCall("connection.close", "finally")>>

\* A shutdown whose finally block repeats the calls without looking at
\* is_closed (what OrderlyShutdown must tell apart from the code's path).
shutdown_path_unguarded(ctx) ==
    IF ctx = "users"
    THEN <<ShutdownCall("channel.stop_consuming", "except KeyboardInterrupt"),
           ShutdownCall("connection.close", "except KeyboardInterrupt"),
           ShutdownCall("channel.stop_consuming", "finally"),
           ShutdownCall("connection.close", "finally")>>
    ELSE <<ShutdownCall("channel.stop_consuming", "finally"),
           ShutdownCall("connection.close", "finally")>>

\* What start_consuming / start_consuming_auth call on the channel and the
\* connection once KeyboardInterrupt leaves channel.start_consuming(): the
\* users worker closes in its except clause (its finally then finds both
\* closed), the auth worker only prints there and closes in finally.
shutdown_path(ctx) ==
    IF ctx = "users"
    THEN <<ShutdownCall("channel.stop_consuming", "except KeyboardInterrupt"),
           ShutdownCall("connection.close", "except KeyboardInterrupt")>>
    ELSE <<ShutdownCall("channel.stop_consuming", "finally"),
           ShutdownCall("connection.close", "finally")>>

\* What a call of the shutdown path does to the consumer, the channel and
\* the connection: stop_consuming cancels the consumer; closing the
\* connection closes its channel first and then the connection.
shutdown_effects(call) ==
    IF call = "channel.stop_consuming" THEN <<"consumer cancelled">>
    ELSE IF call = "connection.close" THEN <<"channel closed", "connection closed">>
    ELSE <<>>

SettlementCalls == {"basic_ack", "basic_nack", "basic_reject"}

\* The broker's side of a closing connection: a delivery the consumer
\* settled is gone, one it left unsettled goes back to the head of its
\* queue, marked redelivered.  'held' is the worker's unsettled delivery.
requeued_on_close(calls, held) ==
    IF held.none \/ \E i \in DOMAIN calls : calls[i].call \in SettlementCalls
    THEN <<>>
    ELSE <<[held EXCEPT !.redelivered = TRUE]>>

max_retries == 5
retry_delay == 5

StartupState(pc, attempt, sleeps, raised) ==
    [pc |-> pc, attempt |-> attempt, sleeps |-> sleeps, raised |-> raised]

\* start_consuming has been called
Starting == StartupState("create_tables", 0, 0, NoExc)
\* start_consuming has reached channel.start_consuming() at its first attempt
Started == StartupState("consuming", 1, 0, NoExc)

\* what pika.BlockingConnection(parameters) / connection.channel() may do
\* What one pass of the connection loop can meet: both calls succeed; the
\* broker cannot be reached or goes away (AMQPConnectionError, which leaves
\* no connection open whichever of the two calls raises it);
\* BlockingConnection raises anything else; or BlockingConnection returns
\* an open connection and connection.channel() raises an AMQPChannelError,
\* which "except AMQPConnectionError" does not catch.
ConnectOutcomes ==
    {"connected", "AMQPConnectionError", "Exception", "channel: AMQPChannelError"}

\* the outcomes in which pika.BlockingConnection(parameters) returned a
\* connection that is still open when the pass ends
ConnectionOpened == {"connected", "channel: AMQPChannelError"}

\* the calls one pass of the loop makes
connect_calls(outcome) ==
    IF outcome \in ConnectionOpened THEN <<"BlockingConnection", "channel">>
    ELSE <<"BlockingConnection">>

\* The local `connection` of start_consuming is the last connection made;
\* a connection is "open", "closed", or "closed again" once close() was
\* called on it after it was closed.
connection_made(conns, outcome) ==
    IF outcome \in ConnectionOpened THEN Append(conns, "open") ELSE conns

\* connection.close()
connection_close(conns) ==
    IF conns = <<>> THEN conns
    ELSE [conns EXCEPT ![Len(conns)] = IF @ = "open" THEN "closed" ELSE "closed again"]

\* finally: "if connection and not connection.is_closed: connection.close()"
finally_close(conns) ==
    IF conns # <<>> /\ conns[Len(conns)] = "open" THEN connection_close(conns) ELSE conns

\* the connection.close() calls of a shutdown path, applied in order
shutdown_closes(conns, calls) ==
    LET n == Cardinality({i \in DOMAIN calls : calls[i].call = "connection.close"})
    IN  IF n = 0 THEN conns
        ELSE IF n = 1 THEN connection_close(conns)
        ELSE connection_close(connection_close(conns))

\* create_tables(): an exception of create_all is re-raised and leaves
\* start_consuming before the first connection attempt
create_tables(st, dbOk) ==
    IF dbOk
    THEN StartupState("connecting", 1, st.sleeps, NoExc)
    ELSE StartupState("failed", st.attempt, st.sleeps,
                      Exc("OperationalError", "database unavailable"))

\* A retry loop that also waits after its last attempt and tries once
\* more (what StartupRetriesAndTerminates must tell apart from the loop).
connect_attempt_one_more(st, outcome) ==
    IF outcome = "connected"
    THEN StartupState("connected", st.attempt, st.sleeps, NoExc)
    ELSE IF outcome = "AMQPConnectionError"
    THEN IF st.attempt <= max_retries
         THEN StartupState("sleeping", st.attempt, st.sleeps + 1, NoExc)
         ELSE StartupState("failed", st.attempt, st.sleeps,
                           Exc("AMQPConnectionError", "connection refused"))
    ELSE StartupState("failed", st.attempt, st.sleeps,
                      Exc("Exception", "unexpected connection error"))

\* One pass of "for attempt in range(1, max_retries + 1)": the try block
\* and its except clauses, up to the call of time.sleep.
connect_attempt(st, outcome) ==
    IF outcome = "connected"
    THEN \* break
         StartupState("connected", st.attempt, st.sleeps, NoExc)
    ELSE IF outcome = "AMQPConnectionError"
    THEN IF st.attempt < max_retries
         THEN StartupState("sleeping", st.attempt, st.sleeps + 1, NoExc)
         ELSE \* raise
              StartupState("failed", st.attempt, st.sleeps,
                           Exc("AMQPConnectionError", "connection refused"))
    ELSE \* except Exception: raise
         StartupState("failed", st.attempt, st.sleeps,
                      Exc("Exception", "unexpected connection error"))

\* time.sleep(retry_delay) returns: the loop takes its next attempt
sleep_returns(st) == StartupState("connecting", st.attempt + 1, st.sleeps, NoExc)

\* A worker that registers its callback before it limits the prefetch
\* (what StartupInFixedOrder must tell apart from the code's order).
ChannelSetup_qos_after_consume ==
    <<"queue_declare(durable=True)", "basic_consume(auto_ack=False)",
      "basic_qos(prefetch_count=1)", "start_consuming">>

\* the calls of the try block that follows the connection loop, in order
ChannelSetup ==
    <<"queue_declare(durable=True)", "basic_qos(prefetch_count=1)",
      "basic_consume(auto_ack=False)", "start_consuming">>

\* which of them raises, if any: start_consuming itself blocks
SetupOutcomes == {"ok", "queue_declare", "basic_qos", "basic_consume"}

\* the calls made when the step named by `outcome` raises: that call is
\* the last one; all of them when none raises
channel_setup_calls(outcome) ==
    IF outcome = "queue_declare" THEN SubSeq(ChannelSetup, 1, 1)
    ELSE IF outcome = "basic_qos" THEN SubSeq(ChannelSetup, 1, 2)
    ELSE IF outcome = "basic_consume" THEN SubSeq(ChannelSetup, 1, 3)
    ELSE ChannelSetup

\* queue_declare, basic_qos(prefetch_count=1), basic_consume,
\* channel.start_consuming(); an exception of the first three is caught by
\* "except Exception" (printed) and start_consuming returns
enter_consume_loop(st, outcome) ==
    IF outcome = "ok"
    THEN StartupState("consuming", st.attempt, st.sleeps, NoExc)
    ELSE StartupState("setup_failed", st.attempt, st.sleeps, NoExc)

\* the calls of a start_consuming that connected at once and consumes
StartedSetup == <<"create_tables", "BlockingConnection", "channel">> \o ChannelSetup

(***************************************************************************)
(* Inputs the model draws from.                                            *)
(***************************************************************************)
AnaEmail == <<"A","n","a","@","E","x","a","m","p","l","e",".","c","o","m">>
AnaLower == <<"a","n","a","@","e","x","a","m","p","l","e",".","c","o","m">>
BobEmail == <<"b","o","b","@","x",".","i","o">>
NotAnEmail == <<"e","m","a","i","l","_","i","n","v">>

AnaCommand == CreateUserCommand("Ana", AnaEmail, "secret123", NoId)
AnaBody == publish_create_user(AnaCommand)

\* what callers hand to handle_create_user and to the publisher
CreateCommands ==
    {CreateUserCommand(n, e, "secret123", i) :
        n \in {"Ana"}, e \in {AnaEmail, BobEmail, NotAnEmail},
        i \in {NoId, ExtId(1)}}

\* what any producer may put on the user_commands queue
UserBodies ==
    {BadUtf8, BadJson, JsonArray, AnaBody,
     Envelope("CreateUserCommand",
              Data({"name", "email", "password", "user_id"}, "Ana", AnaEmail,
                   "secret123", ExtId(1))),
     Envelope("CreateUserCommand",
              Data({"name", "email"}, "Ana", AnaEmail, "", NoId)),
     Envelope("CreateUserCommand",
              Data({"name", "password"}, "Ana", <<>>, "secret123", NoId)),
     Envelope("CreateUserCommand",
              Data({"email", "password"}, "", AnaEmail, "secret123", NoId)),
     Envelope("CreateUserCommand", NoData),
     Envelope("DeleteUserCommand", Data({"name"}, "Ana", <<>>, "", NoId)),
     Envelope("RegisterUserCommand",
              Data({"name", "email", "password"}, "Ana", AnaEmail, "secret123", NoId))}

\* what any producer may put on the auth_commands queue
AuthBodies ==
    {BadUtf8, BadJson,
     publish_command("RegisterUserCommand",
                     Data({"name", "email", "password"}, "Ana", AnaEmail,
                          "secret123", NoId)),
     Envelope("RegisterUserCommand", NoData)}

BodiesOf(ctx) == IF ctx = "users" THEN UserBodies ELSE AuthBodies

LoginCommands ==
    {LoginCommand(e, p) : e \in {AnaEmail, AnaLower, BobEmail},
                          p \in {"secret123", "wrong"}}

\* the strings handed to handle_validate_token: what a generator returned,
\* and a string no generator returned
QueriedTokens == TokenStrings \cup {"tokZ"}

\* accounts present in table 'users' when the auth handlers are exercised
RegisteredUsers ==
    {User(ExtId(1), "Ana", AnaEmail, dummy_hash_password("secret123")).value,
     User(ExtId(2), "Bob", BobEmail, CorrectHashedPassword).value}

(***************************************************************************)
(* State.                                                                  *)
(***************************************************************************)
Contexts == {"users", "auth"}
Workers == {"u1", "u2", "a1"}
ContextOf(w) == IF w = "a1" THEN "auth" ELSE "users"

NoMsg == [none |-> TRUE, body |-> BadUtf8, redelivered |-> FALSE]
Msg(body, redelivered) == [none |-> FALSE, body |-> body, redelivered |-> redelivered]

\* what a callback did: its settlement calls and its effect on table 'users'
NoCb == [raised |-> NoExc, calls |-> <<>>, branch |-> "none",
         swallowed |-> "none", handlerCalled |-> FALSE, handlerRaised |-> NoExc, saveCalls |-> 0,
         added |-> {}]
CbRecord(outcome, rowsBefore) ==
    [raised |-> outcome.raised, calls |-> outcome.calls, branch |-> outcome.branch,
     swallowed |-> outcome.swallowed, handlerCalled |-> outcome.handlerCalled,
     handlerRaised |-> outcome.handler.raised,
     saveCalls |-> outcome.handler.saveCalls,
     added |-> outcome.rows \ rowsBefore]

NoCreateCall == [called |-> FALSE, command |-> AnaCommand,
                 hash_password_fn |-> "", dbOk |-> TRUE, raised |-> NoExc,
                 ret |-> NoId, saveCalls |-> 0, saved |-> NoUser, added |-> {}]
NoLoginCall == [called |-> FALSE, command |-> LoginCommand(<<>>, ""),
                verify_password_fn |-> "", generated |-> [raises |-> TRUE, value |-> ""],
                calculate_expires_fn |-> "",
                raised |-> NoExc, ret |-> "", calls |-> <<>>, lookup |-> "raised",
                user |-> NoUser, verdict |-> "not_called", saved |-> NoToken,
                uuidDrawn |-> 0, added |-> {}]
NoTokenCase == [called |-> FALSE,
                args |-> [token_id |-> NoId, user_id |-> NoId, access_token |-> "", expires_at |-> NoTime],
                at |-> 0, raised |-> NoExc, value |-> NoToken,
                expired |-> "not_called", checkedAt |-> 0]
\* os.environ, as far as the connection policy goes: whether a maximum
\* number of attempts and a retry delay are set, and to what
EnvUnset == [set |-> FALSE, value |-> 0]
EnvValue(n) == [set |-> TRUE, value |-> n]
NoEnvironment == [max_retries |-> EnvUnset, retry_delay |-> EnvUnset]
ConfiguredRetries == 2
ConfiguredDelay == 1
Environments ==
    {NoEnvironment,
     [max_retries |-> EnvValue(ConfiguredRetries), retry_delay |-> EnvValue(ConfiguredDelay)]}

NoUserCase == [called |-> FALSE, op |-> "none", email |-> <<>>, name |-> <<>>,
               raised |-> NoExc, held |-> FALSE, user |-> NoUser]
NoRegisterCall == [called |-> FALSE, user_id |-> NoId,
                   generated |-> [raises |-> TRUE, value |-> ""],
                   calculate_expires_fn |-> "", saveOk |-> FALSE, duplicate |-> FALSE,
                   raised |-> NoExc, ret |-> "", calls |-> <<>>, saved |-> NoToken,
                   added |-> {}]
NoCloseCall == [called |-> FALSE, ctx |-> "", held |-> "none", raised |-> NoExc, calls |-> <<>>]
NoPublishCall == [called |-> FALSE, ctx |-> "", envelope |-> BadJson, raised |-> NoExc,
                  calls |-> <<>>, sent |-> <<>>, held |-> "none",
                  declared |-> queue_declare_args(""), properties |-> basic_publish_args("")]
NoValidateCall == [called |-> FALSE, access_token |-> "", dbOk |-> TRUE,
                   raised |-> NoExc, value |-> NullResult, calls |-> <<>>,
                   stored |-> TokenModel(NoToken), expired |-> FALSE]

InitState(userRows, position, started, waiting, made, env) ==
    /\ users = userRows
    /\ tokens = {}
    /\ now = 0
    /\ uuidCount = 0
    /\ queues = waiting
    /\ published = 0
    /\ wpc = [w \in Workers |-> position]
    /\ unacked = [w \in Workers |-> NoMsg]
    /\ cb = [w \in Workers |-> NoCb]
    /\ interrupts = 0
    /\ createResult = NoCreateCall
    /\ loginResult = NoLoginCall
    /\ validateResult = NoValidateCall
    /\ startup = [w \in Workers |-> started]
    /\ publisher = [ctx \in Contexts |-> NewPublisher]
    /\ publishResult = NoPublishCall
    /\ shutdown = [w \in Workers |-> <<>>]
    /\ tokenCase = NoTokenCase
    /\ setup = [w \in Workers |-> made]
    /\ closeResult = NoCloseCall
    /\ registerResult = NoRegisterCall
    /\ environ = env
    /\ userCase = NoUserCase
    /\ connections = [w \in Workers |-> IF position = "consuming" THEN <<"open">> ELSE <<>>]
    /\ sessions = [w \in Workers |-> 0]

\* the state after construction in an environment that sets none of the
\* variables the spec names for the connection policy
InitFrom(userRows, position, started, waiting, made) ==
    InitState(userRows, position, started, waiting, made, NoEnvironment)

\* every worker has connected at its first attempt and consumes
InitWith(userRows) ==
    InitFrom(userRows, "consuming", Started, [c \in Contexts |-> <<>>], StartedSetup)

\* empty storage, empty queues, workers consuming
Init == InitWith({})

pipelineVars == <<queues, published, wpc, unacked, cb, interrupts>>
handlerVars == <<createResult, loginResult, validateResult>>
caseVars == <<registerResult, environ, userCase>>
resourceVars == <<connections, sessions>>
auxVars == <<startup, publisher, publishResult, shutdown, tokenCase, setup, closeResult,
             caseVars>>

(***************************************************************************)
(* Pipeline actions.                                                       *)
(***************************************************************************)
\* RabbitMQPublisher.publish_create_user(command), the broker accepting the
\* message.  (When the broker cannot be reached the call raises and nothing
\* is enqueued: no state changes.)
PublishCreateUser(command) ==
    /\ published < MaxPublish
    /\ queues' = [queues EXCEPT !["users"] =
                      Append(@, Msg(publish_create_user(command), FALSE))]
    /\ published' = published + 1
    /\ UNCHANGED <<users, tokens, now, uuidCount, wpc, unacked, cb, interrupts,
                   handlerVars, auxVars, resourceVars>>

\* any producer: an arbitrary body arrives on a context's queue
ExternalPublish(ctx, body) ==
    /\ published < MaxPublish
    /\ queues' = [queues EXCEPT ![ctx] = Append(@, Msg(body, FALSE))]
    /\ published' = published + 1
    /\ UNCHANGED <<users, tokens, now, uuidCount, wpc, unacked, cb, interrupts,
                   handlerVars, auxVars, resourceVars>>

\* basic_qos(prefetch_count=1)
prefetch_count == 1

\* the deliveries the broker has pushed on the worker's channel and that the
\* worker has neither acknowledged nor rejected (auto_ack=False)
Unsettled(w) == IF unacked[w].none THEN 0 ELSE 1

\* A broker that pushes the head of the queue to a connected worker without
\* looking at what the worker still holds, as without basic_qos (what
\* OneDeliveryPerWorker must tell apart from Deliver).
Deliver_no_qos(w) ==
    /\ wpc[w] # "stopped"
    /\ queues[ContextOf(w)] # <<>>
    /\ unacked' = [unacked EXCEPT ![w] = Head(queues[ContextOf(w)])]
    /\ queues' = [queues EXCEPT ![ContextOf(w)] = Tail(@)]
    /\ wpc' = [wpc EXCEPT ![w] = "callback"]
    /\ UNCHANGED <<users, tokens, now, uuidCount, published, cb, interrupts,
                   handlerVars, auxVars, resourceVars>>

\* the broker pushes the head of the queue to a consuming worker that holds
\* fewer than prefetch_count unsettled deliveries (basic_qos(prefetch_count=1),
\* auto_ack=False); the worker's loop hands it to callback
Deliver(w) ==
    /\ wpc[w] = "consuming"
    /\ Unsettled(w) < prefetch_count
    /\ queues[ContextOf(w)] # <<>>
    /\ unacked' = [unacked EXCEPT ![w] = Head(queues[ContextOf(w)])]
    /\ queues' = [queues EXCEPT ![ContextOf(w)] = Tail(@)]
    /\ wpc' = [wpc EXCEPT ![w] = "callback"]
    /\ UNCHANGED <<users, tokens, now, uuidCount, published, cb, interrupts,
                   handlerVars, auxVars, resourceVars>>

\* create_user_repository(): UsersSessionLocal() makes a new session for the
\* repository it returns; neither the factory, the repository, the handler
\* nor process_create_user_command closes it.  `held` is the number of
\* sessions the worker has created and not closed.
create_user_repository(held) == held + 1

\* callback up to (not including) its basic_ack / basic_nack call
Callback(w, hashRaisesSet, repoOkSet, dbOkSet) ==
    /\ wpc[w] = "callback"
    /\ \E hashRaises \in hashRaisesSet, salt \in Salts, repoOk \in repoOkSet,
          dbOk \in dbOkSet :
          \E outcome \in
                {IF ContextOf(w) = "users"
                 THEN users_callback(unacked[w].body, users, hashRaises, salt,
                                     repoOk, Uuid(uuidCount + 1), dbOk)
                 ELSE auth_callback(unacked[w].body)} :
              /\ uuidCount + outcome.handler.uuidDrawn <= MaxUuid
              /\ users' = IF ContextOf(w) = "users" THEN outcome.rows ELSE users
              /\ uuidCount' = uuidCount + outcome.handler.uuidDrawn
              /\ cb' = [cb EXCEPT ![w] = CbRecord(outcome,
                            IF ContextOf(w) = "users" THEN users ELSE {})]
              /\ sessions' = [sessions EXCEPT ![w] =
                                 IF ContextOf(w) = "users" /\ outcome.handlerCalled
                                 THEN create_user_repository(@) ELSE @]
    /\ wpc' = [wpc EXCEPT ![w] = "settle"]
    /\ UNCHANGED <<tokens, now, queues, published, unacked, interrupts,
                   handlerVars, auxVars, connections>>

\* the callback's settlement call reaches the broker and the callback
\* returns to the consume loop; a nack with requeue puts the message back
Settle(w) ==
    /\ wpc[w] = "settle"
    /\ queues' = IF \E i \in DOMAIN cb[w].calls : cb[w].calls[i].requeue
                 THEN [queues EXCEPT ![ContextOf(w)] =
                          <<Msg(unacked[w].body, TRUE)>> \o @]
                 ELSE queues
    /\ unacked' = [unacked EXCEPT ![w] = NoMsg]
    /\ cb' = [cb EXCEPT ![w] = NoCb]
    /\ wpc' = [wpc EXCEPT ![w] = "consuming"]
    /\ UNCHANGED <<users, tokens, now, uuidCount, published, interrupts,
                   handlerVars, auxVars, resourceVars>>

\* KeyboardInterrupt in start_consuming: the worker stops consuming and
\* closes its connection; the broker requeues the delivery it held
\* unsettled, marked redelivered
Interrupt(w) ==
    /\ wpc[w] # "stopped"
    /\ interrupts < MaxInterrupts
    /\ interrupts' = interrupts + 1
    /\ shutdown' = [shutdown EXCEPT ![w] = shutdown_path(ContextOf(w))]
    /\ queues' = [queues EXCEPT ![ContextOf(w)] =
                      requeued_on_close(shutdown_path(ContextOf(w)), unacked[w]) \o @]
    /\ unacked' = [unacked EXCEPT ![w] = NoMsg]
    /\ cb' = [cb EXCEPT ![w] = NoCb]
    /\ wpc' = [wpc EXCEPT ![w] = "stopped"]
    /\ connections' = [connections EXCEPT ![w] =
                          finally_close(shutdown_closes(@, shutdown_path(ContextOf(w))))]
    /\ UNCHANGED <<users, tokens, now, uuidCount, published,
                   handlerVars, closeResult, caseVars, sessions, startup, publisher, publishResult,
                   tokenCase, setup>>

\* the worker process is started again and consumes
Restart(w) ==
    /\ wpc[w] = "stopped"
    /\ wpc' = [wpc EXCEPT ![w] = "consuming"]
    /\ shutdown' = [shutdown EXCEPT ![w] = <<>>]
    /\ connections' = [connections EXCEPT ![w] = <<"open">>]
    /\ sessions' = [sessions EXCEPT ![w] = 0]
    /\ UNCHANGED <<users, tokens, now, uuidCount, queues, published, unacked, cb,
                   interrupts, handlerVars, closeResult, caseVars, startup, publisher, publishResult,
                   tokenCase, setup>>

Next ==
    \/ \E command \in CreateCommands : PublishCreateUser(command)
    \/ \E ctx \in Contexts : \E body \in BodiesOf(ctx) : ExternalPublish(ctx, body)
    \/ \E w \in Workers : Deliver(w)
    \/ \E w \in Workers : Callback(w, BOOLEAN, BOOLEAN, BOOLEAN)
    \/ \E w \in Workers : Settle(w)
    \/ \E w \in Workers : Interrupt(w)
    \/ \E w \in Workers : Restart(w)

\* the command pipeline: publishers, broker queues, users and auth workers
Spec == Init /\ [][Next]_vars

\* The pipeline with its workers running: the broker pushes a waiting
\* message to a consumer that is free, a callback runs to its settlement
\* call, and a stopped worker process is started again.
SpecWorkersRun ==
    /\ Spec
    /\ \A w \in Workers :
          /\ WF_vars(Deliver(w))
          /\ WF_vars(Callback(w, BOOLEAN, BOOLEAN, BOOLEAN))
          /\ WF_vars(Settle(w))
          /\ WF_vars(Restart(w))

(***************************************************************************)
(* Handler calls made directly by a caller (routes, tests).                *)
(***************************************************************************)
\* handle_create_user(command, user_repository, hash_password_fn) on the
\* SQLAlchemy repository
CreateUser(command, hash_password_fn, dbOk) ==
    \E outcome \in {handle_create_user(command, users, hash_password_fn,
                                        Uuid(uuidCount + 1), dbOk)} :
        /\ uuidCount + outcome.uuidDrawn <= MaxUuid
        /\ users' = outcome.rows
        /\ uuidCount' = uuidCount + outcome.uuidDrawn
        /\ createResult' = [called |-> TRUE, command |-> command,
                            hash_password_fn |-> hash_password_fn, dbOk |-> dbOk,
                            raised |-> outcome.raised, ret |-> outcome.ret,
                            saveCalls |-> outcome.saveCalls,
                            saved |-> outcome.saved,
                            added |-> outcome.rows \ users]
        /\ loginResult' = NoLoginCall
        /\ validateResult' = NoValidateCall
        /\ UNCHANGED <<tokens, now, pipelineVars, auxVars, resourceVars>>

\* handle_login_user(command, user_repository, token_repository,
\* verify_password_fn, hash_password_fn, generate_token_fn,
\* calculate_expires_fn) on the SQLAlchemy repositories
\* A login that goes on to the token steps on the stored hash alone,
\* whatever the injected verifier says of the password (what
\* LoginCollaboratorOrder must tell apart from handle_login_user).
Login_ignores_verifier(command, verify_password_fn, generated, calculate_expires_fn, usersDbOk, tokensDbOk) ==
    \E outcome \in {handle_login_user(command, users, tokens, now,
                                       "mock_verify_password", generated,
                                       calculate_expires_fn, Uuid(uuidCount + 1),
                                       usersDbOk, tokensDbOk)} :
        /\ uuidCount + outcome.uuidDrawn <= MaxUuid
        /\ tokens' = outcome.rows
        /\ uuidCount' = uuidCount + outcome.uuidDrawn
        /\ loginResult' = [called |-> TRUE, command |-> command,
                           verify_password_fn |-> verify_password_fn,
                           generated |-> generated,
                           calculate_expires_fn |-> calculate_expires_fn,
                           raised |-> outcome.raised, ret |-> outcome.ret,
                           calls |-> outcome.calls, lookup |-> outcome.lookup,
                           user |-> outcome.user, verdict |-> outcome.verdict,
                           saved |-> outcome.saved, uuidDrawn |-> outcome.uuidDrawn,
                           added |-> outcome.rows \ tokens]
        /\ createResult' = NoCreateCall
        /\ validateResult' = NoValidateCall
        /\ UNCHANGED <<users, now, pipelineVars, auxVars, resourceVars>>

\* handle_login_user(command, user_repository, token_repository, ...) on
\* the tables as they are
Login(command, verify_password_fn, generated, calculate_expires_fn, usersDbOk, tokensDbOk) ==
    \E outcome \in {handle_login_user(command, users, tokens, now,
                                       verify_password_fn, generated,
                                       calculate_expires_fn, Uuid(uuidCount + 1),
                                       usersDbOk, tokensDbOk)} :
        /\ uuidCount + outcome.uuidDrawn <= MaxUuid
        /\ tokens' = outcome.rows
        /\ uuidCount' = uuidCount + outcome.uuidDrawn
        /\ loginResult' = [called |-> TRUE, command |-> command,
                           verify_password_fn |-> verify_password_fn,
                           generated |-> generated,
                           calculate_expires_fn |-> calculate_expires_fn,
                           raised |-> outcome.raised, ret |-> outcome.ret,
                           calls |-> outcome.calls, lookup |-> outcome.lookup,
                           user |-> outcome.user, verdict |-> outcome.verdict,
                           saved |-> outcome.saved, uuidDrawn |-> outcome.uuidDrawn,
                           added |-> outcome.rows \ tokens]
        /\ createResult' = NoCreateCall
        /\ validateResult' = NoValidateCall
        /\ UNCHANGED <<users, now, pipelineVars, auxVars, resourceVars>>

\* handle_validate_token(query, token_repository) on the SQLAlchemy
\* repository; `stored` and `expired` record what table 'tokens' held for
\* the queried string when the call was made
Validate(access_token, dbOk) ==
    \E outcome \in {handle_validate_token(access_token, tokens, now, dbOk)},
       held \in {{r \in tokens : r.access_token = access_token}} :
        /\ tokens' = outcome.rows
        /\ validateResult' =
               [called |-> TRUE, access_token |-> access_token, dbOk |-> dbOk,
                raised |-> outcome.raised, value |-> outcome.value,
                calls |-> outcome.calls,
                stored |-> IF held = {} THEN TokenModel(NoToken)
                           ELSE CHOOSE r \in held : TRUE,
                expired |-> \E r \in held : r.expires_at.t <= now]
        /\ createResult' = NoCreateCall
        /\ loginResult' = NoLoginCall
        /\ UNCHANGED <<users, now, uuidCount, pipelineVars, auxVars, resourceVars>>

\* an hour passes
Tick ==
    /\ now < MaxTime
    /\ now' = now + 1
    /\ UNCHANGED <<users, tokens, uuidCount, pipelineVars, handlerVars, auxVars, resourceVars>>

\* handle_create_user called directly, as the handler's callers with the
\* full argument list do, from empty storage
NextCreate ==
    \E command \in CreateCommands, hash_password_fn \in HashFns, dbOk \in BOOLEAN :
        CreateUser(command, hash_password_fn, dbOk)

SpecCreate == Init /\ [][NextCreate]_vars

\* the auth handlers on a database that holds the registered users
InitAuth == InitWith(RegisteredUsers)

\* The runs of handle_login_user that are exercised: every command with
\* collaborators that return, and each collaborator or database failing
\* alone on a login whose credentials are right.
LoginRun(command, verify_password_fn, generated, calculate_expires_fn, usersDbOk, tokensDbOk) ==
    [command |-> command, verify_password_fn |-> verify_password_fn,
     generated |-> generated, calculate_expires_fn |-> calculate_expires_fn,
     usersDbOk |-> usersDbOk, tokensDbOk |-> tokensDbOk]

Returned(string) == [raises |-> FALSE, value |-> string]

RightCredentials ==
    {<<LoginCommand(AnaLower, "secret123"), "dummy_verify_password">>,
     <<LoginCommand(BobEmail, "secret123"), "mock_verify_password">>}

LoginRuns ==
    {LoginRun(c, v, Returned(g), e, TRUE, TRUE) :
        c \in LoginCommands, v \in {"dummy_verify_password", "mock_verify_password"},
        g \in TokenStrings, e \in {"calculate_expires_at", "mock_calculate_expires"}}
    \cup {LoginRun(rc[1], v, Returned("tokA"), "mock_calculate_expires", TRUE, TRUE) :
            rc \in RightCredentials, v \in VerifyFns}
    \cup {LoginRun(rc[1], rc[2], g, "mock_calculate_expires", TRUE, TRUE) :
            rc \in RightCredentials, g \in GenerateOutcomes}
    \cup {LoginRun(rc[1], rc[2], Returned("tokA"), e, TRUE, TRUE) :
            rc \in RightCredentials, e \in ExpiresFns}
    \cup {LoginRun(rc[1], rc[2], Returned("tokA"), "mock_calculate_expires", u, t) :
            rc \in RightCredentials, u \in BOOLEAN, t \in BOOLEAN}

NextAuth ==
    \/ \E run \in LoginRuns :
          Login(run.command, run.verify_password_fn, run.generated,
                run.calculate_expires_fn, run.usersDbOk, run.tokensDbOk)
    \/ \E access_token \in QueriedTokens, dbOk \in BOOLEAN :
          Validate(access_token, dbOk)
    \/ Tick

SpecAuth == InitAuth /\ [][NextAuth]_vars

(***************************************************************************)
(* handle_register_user_for_auth_context, called directly as its unit      *)
(* tests call it, against a token table that fills up.                     *)
(***************************************************************************)
RegisterUserIds == {ExtId(1), ExtId(2)}

\* `duplicate` records whether table 'tokens' already held the generated
\* string when the call was made
Register(user_id, generated, calculate_expires_fn, saveOk) ==
    \E outcome \in {handle_register_user_for_auth_context(
                        user_id, tokens, now, generated, calculate_expires_fn,
                        Uuid(uuidCount + 1), saveOk)} :
        /\ uuidCount + outcome.uuidDrawn <= MaxUuid
        /\ tokens' = outcome.rows
        /\ uuidCount' = uuidCount + outcome.uuidDrawn
        /\ registerResult' =
               [called |-> TRUE, user_id |-> user_id, generated |-> generated,
                calculate_expires_fn |-> calculate_expires_fn, saveOk |-> saveOk,
                duplicate |-> \E r \in tokens : r.access_token = generated.value,
                raised |-> outcome.raised, ret |-> outcome.ret,
                calls |-> outcome.calls, saved |-> outcome.saved,
                added |-> outcome.rows \ tokens]
        /\ UNCHANGED <<users, now, pipelineVars, handlerVars, startup, publisher,
                       publishResult, shutdown, tokenCase, setup, closeResult, environ,
                       userCase, resourceVars>>

NextRegister ==
    \/ \E user_id \in RegisterUserIds, generated \in GenerateOutcomes,
          calculate_expires_fn \in ExpiresFns, saveOk \in BOOLEAN :
          Register(user_id, generated, calculate_expires_fn, saveOk)
    \/ Tick

SpecRegister == InitWith({}) /\ [][NextRegister]_vars

(***************************************************************************)
(* The User entity on its own: constructed once from any name and any      *)
(* email text up to a length, then renamed through its name setter.        *)
(***************************************************************************)
MaxEmailLen == 6
MaxNameLen == 3
EmailChars == {"a", "B", "@", ".", "!", " "}
NameChars == {"A", "b", " ", "\t"}

Texts(chars, maxLen) == UNION {[1..n -> chars] : n \in 0..maxLen}

\* every email text up to MaxEmailLen, and the emails used elsewhere, one
\* of them followed by a newline
EmailTexts ==
    Texts(EmailChars, MaxEmailLen)
        \cup {AnaEmail, AnaLower, BobEmail, NotAnEmail, Append(BobEmail, "\n")}
NameTexts == Texts(NameChars, MaxNameLen)

\* the constructions exercised: one name with every email, one email with
\* every name
UserArgs ==
    {<<<<"A">>, e>> : e \in EmailTexts} \cup {<<n, BobEmail>> : n \in NameTexts}

\* User(user_id, name, email, hashed_password), once, with any of UserArgs
ConstructUser ==
    /\ ~userCase.called
    /\ \E args \in UserArgs :
          \E outcome \in {User(ExtId(1), args[1], args[2], dummy_hash_password("secret123"))} :
              userCase' = [called |-> TRUE, op |-> "__init__", email |-> args[2],
                           name |-> args[1], raised |-> outcome.raised,
                           held |-> outcome.raised = NoExc, user |-> outcome.value]
    /\ UNCHANGED <<users, tokens, now, uuidCount, pipelineVars, handlerVars, startup,
                   publisher, publishResult, shutdown, tokenCase, setup, closeResult,
                   registerResult, environ, resourceVars>>

\* user.name = value, on the User constructed before
SetName(value) ==
    /\ userCase.held
    /\ \E outcome \in {User_name_setter(userCase.user, value)} :
          userCase' = [userCase EXCEPT !.op = "name.setter", !.name = value,
                                       !.raised = outcome.raised,
                                       !.user = outcome.value]
    /\ UNCHANGED <<users, tokens, now, uuidCount, pipelineVars, handlerVars, startup,
                   publisher, publishResult, shutdown, tokenCase, setup, closeResult,
                   registerResult, environ, resourceVars>>

NextUser ==
    \/ ConstructUser
    \/ \E value \in NameTexts : SetName(value)

SpecUser == InitWith({}) /\ [][NextUser]_vars

(***************************************************************************)
(* End to end: the publisher, the users worker and the auth handlers wired *)
(* as the application wires them, from empty storage, with the broker and  *)
(* both databases available.                                               *)
(***************************************************************************)
\* every published message has been delivered and settled
AllConsumed ==
    /\ published >= 1
    /\ queues["users"] = <<>>
    /\ \A w \in Workers : unacked[w].none

\* POST /auth/login as routes.py wires it: dummy_verify_password,
\* generate_access_token, calculate_expires_at
AppLogin(command, string) ==
    /\ AllConsumed
    /\ Login(command, "dummy_verify_password", Returned(string),
             "calculate_expires_at", TRUE, TRUE)

NextE2E ==
    \/ PublishCreateUser(AnaCommand)
    \/ \E w \in Workers : Deliver(w)
    \/ \E w \in Workers : Callback(w, {FALSE}, {TRUE}, {TRUE})
    \/ \E w \in Workers : Settle(w)
    \/ \E w \in Workers : Interrupt(w)
    \/ \E w \in Workers : Restart(w)
    \/ \E string \in TokenStrings :
          AppLogin(LoginCommand(AnaEmail, "secret123"), string)
    \/ \E access_token \in QueriedTokens : Validate(access_token, TRUE)
    \/ Tick

SpecE2E == Init /\ [][NextE2E]_vars

(***************************************************************************)
(* Worker startup as a process: every worker runs start_consuming from     *)
(* its first line.  Each step of the function returns (the connection      *)
(* attempt ends in success or in an exception, time.sleep returns), which  *)
(* is what the weak fairness of the steps states.                          *)
(***************************************************************************)
InitStartup ==
    InitFrom({}, "starting", Starting,
             [c \in Contexts |-> IF c = "users" THEN <<Msg(AnaBody, FALSE)>> ELSE <<Msg(BadJson, FALSE)>>],
             <<>>)

CreateTables(w) ==
    /\ startup[w].pc = "create_tables"
    /\ \E dbOk \in BOOLEAN :
          /\ startup' = [startup EXCEPT ![w] = create_tables(@, dbOk)]
          /\ setup' = [setup EXCEPT ![w] = Append(@, "create_tables")]
          /\ wpc' = [wpc EXCEPT ![w] = IF dbOk THEN @ ELSE "stopped"]
    /\ UNCHANGED <<users, tokens, now, uuidCount, queues, published, unacked, cb,
                   interrupts, handlerVars, closeResult, caseVars, resourceVars, publisher, publishResult, shutdown,
                   tokenCase>>

ConnectAttempt(w) ==
    /\ startup[w].pc = "connecting"
    /\ \E outcome \in ConnectOutcomes :
          /\ startup' = [startup EXCEPT ![w] = connect_attempt(@, outcome)]
          /\ setup' = [setup EXCEPT ![w] = @ \o connect_calls(outcome)]
          /\ connections' = [connections EXCEPT ![w] = connection_made(@, outcome)]
          /\ wpc' = [wpc EXCEPT ![w] =
                        IF connect_attempt(startup[w], outcome).pc = "failed"
                        THEN "stopped" ELSE @]
    /\ UNCHANGED <<users, tokens, now, uuidCount, queues, published, unacked, cb,
                   interrupts, handlerVars, closeResult, caseVars, sessions, publisher, publishResult, shutdown,
                   tokenCase>>

SleepReturns(w) ==
    /\ startup[w].pc = "sleeping"
    /\ startup' = [startup EXCEPT ![w] = sleep_returns(@)]
    /\ setup' = setup
    /\ UNCHANGED <<users, tokens, now, uuidCount, queues, published, wpc, unacked,
                   cb, interrupts, handlerVars, closeResult, caseVars, resourceVars, publisher, publishResult, shutdown,
                   tokenCase>>

EnterConsumeLoop(w) ==
    /\ startup[w].pc = "connected"
    /\ \E outcome \in SetupOutcomes :
          /\ startup' = [startup EXCEPT ![w] = enter_consume_loop(@, outcome)]
          /\ setup' = [setup EXCEPT ![w] = @ \o channel_setup_calls(outcome)]
          /\ wpc' = [wpc EXCEPT ![w] = IF outcome = "ok" THEN "consuming" ELSE "stopped"]
          /\ connections' = [connections EXCEPT ![w] =
                                IF outcome = "ok" THEN @ ELSE finally_close(@)]
    /\ UNCHANGED <<users, tokens, now, uuidCount, queues, published, unacked, cb,
                   interrupts, handlerVars, closeResult, caseVars, sessions, publisher, publishResult, shutdown,
                   tokenCase>>

\* channel.start_consuming() raises while the worker waits for a delivery
\* (the broker went away, or the loop failed with the connection still
\* open): "except Exception" prints it, the finally block closes what is
\* not closed yet, and start_consuming returns
consume_loop_error(st) == StartupState("loop_failed", st.attempt, st.sleeps, NoExc)

ConsumeLoopError(w) ==
    /\ wpc[w] = "consuming"
    /\ startup[w].pc = "consuming"
    /\ \E lost \in BOOLEAN :
          connections' = [connections EXCEPT ![w] =
                             finally_close(IF lost /\ @ # <<>>
                                           THEN [@ EXCEPT ![Len(@)] = "closed"]
                                           ELSE @)]
    /\ startup' = [startup EXCEPT ![w] = consume_loop_error(@)]
    /\ setup' = [setup EXCEPT ![w] = Append(@, "except Exception")]
    /\ wpc' = [wpc EXCEPT ![w] = "stopped"]
    /\ UNCHANGED <<users, tokens, now, uuidCount, queues, published, unacked, cb,
                   interrupts, handlerVars, closeResult, caseVars, sessions, publisher, publishResult, shutdown,
                   tokenCase>>

\* messages published while no worker consumed wait on the durable queues;
\* the broker delivers them to the workers that reach their consume loop
NextStartup ==
    \/ \E w \in Workers : Deliver(w)
    \/ \E w \in Workers : CreateTables(w)
    \/ \E w \in Workers : ConnectAttempt(w)
    \/ \E w \in Workers : SleepReturns(w)
    \/ \E w \in Workers : EnterConsumeLoop(w)

SpecStartup == InitStartup /\ [][NextStartup]_vars /\ WF_vars(NextStartup)

\* the same startup, in an environment that sets the connection policy or
\* leaves it unset; start_consuming reads neither variable
InitStartupEnv ==
    \E env \in Environments :
        InitState({}, "starting", Starting,
                  [c \in Contexts |-> IF c = "users" THEN <<Msg(AnaBody, FALSE)>> ELSE <<Msg(BadJson, FALSE)>>],
                  <<>>, env)

SpecStartupEnv == InitStartupEnv /\ [][NextStartup]_vars

(***************************************************************************)
(* The publishers on their own: the API process of each context holds one  *)
(* publisher and calls it once per request; the broker may drop the        *)
(* connection between two calls.                                           *)
(***************************************************************************)
PublishedEnvelopes(ctx) ==
    IF ctx = "users"
    THEN {publish_create_user(c) : c \in CreateCommands}
    ELSE {publish_command("RegisterUserCommand", d) :
             d \in {Data({"name", "email", "password"}, "Ana", AnaEmail, "secret123", NoId),
                    NoData}}

Publish(ctx, envelope, connectOutcome, serializes, publishOutcome) ==
    /\ published < MaxPublish
    /\ \E outcome \in {publish(publisher[ctx], envelope, connectOutcome, serializes, publishOutcome)} :
          /\ publisher' = [publisher EXCEPT ![ctx] = outcome.pub]
          /\ queues' = [c \in Contexts |->
                            IF QueueOf(c) = basic_publish_args(ctx).routing_key
                            THEN queues[c] \o [i \in 1..Len(outcome.sent) |->
                                                  Msg(outcome.sent[i], FALSE)]
                            ELSE queues[c]]
          /\ published' = published + Len(outcome.sent)
          /\ publishResult' = [called |-> TRUE, ctx |-> ctx, envelope |-> envelope,
                               raised |-> outcome.raised, calls |-> outcome.calls,
                               sent |-> outcome.sent,
                               held |-> publisher[ctx].connection,
                               declared |-> queue_declare_args(ctx),
                               properties |-> basic_publish_args(ctx)]
          /\ closeResult' = NoCloseCall
    /\ UNCHANGED <<users, tokens, now, uuidCount, wpc, unacked, cb, interrupts,
                   handlerVars, startup, shutdown, tokenCase, setup, caseVars, resourceVars>>

\* the broker or the network closes the publisher's connection
ConnectionLost(ctx) ==
    /\ publisher[ctx].connection = "open"
    /\ publisher' = [publisher EXCEPT ![ctx] = ClosedPublisher]
    /\ UNCHANGED <<users, tokens, now, uuidCount, pipelineVars, handlerVars, closeResult, caseVars, resourceVars, startup,
                   publishResult, shutdown, tokenCase, setup>>

ClosePublisher(ctx) ==
    /\ \E outcome \in {publisher_close(publisher[ctx])} :
          /\ publisher' = [publisher EXCEPT ![ctx] = outcome.pub]
          /\ closeResult' = [called |-> TRUE, ctx |-> ctx,
                             held |-> publisher[ctx].connection,
                             raised |-> outcome.raised, calls |-> outcome.calls]
    /\ publishResult' = NoPublishCall
    /\ UNCHANGED <<users, tokens, now, uuidCount, pipelineVars, handlerVars, startup,
                   shutdown, tokenCase, setup, caseVars, resourceVars>>

NextPublish ==
    \/ \E ctx \in Contexts, connectOutcome \in BrokerConnectOutcomes, publishOutcome \in BasicPublishOutcomes :
          \E envelope \in PublishedEnvelopes(ctx), serializes \in {TRUE, ctx = "users"} :
             Publish(ctx, envelope, connectOutcome, serializes, publishOutcome)
    \/ \E ctx \in Contexts : ConnectionLost(ctx)
    \/ \E ctx \in Contexts : ClosePublisher(ctx)

SpecPublish == InitWith({}) /\ [][NextPublish]_vars

(***************************************************************************)
(* The Token entity on its own: constructed directly from arguments, as    *)
(* the domain tests do, asked whether it is expired, while time passes.    *)
(***************************************************************************)
TokenIds == {NoId, EmptyId, Uuid(1)}
TokenUserIds == {EmptyId, ExtId(1)}
TokenAccessStrings == {"", "tokA"}
ExpiryValues == {NoTime} \cup {DateTime(t, aware) : t \in 0..(MaxTime + 1), aware \in BOOLEAN}

ConstructToken(token_id, user_id, access_token, expires_at) ==
    /\ \E outcome \in {Token(token_id, user_id, access_token, expires_at, now)} :
          tokenCase' = [called |-> TRUE,
                        args |-> [token_id |-> token_id, user_id |-> user_id,
                                  access_token |-> access_token, expires_at |-> expires_at],
                        at |-> now, raised |-> outcome.raised, value |-> outcome.value,
                        expired |-> "not_called", checkedAt |-> 0]
    /\ UNCHANGED <<users, tokens, now, uuidCount, pipelineVars, handlerVars, closeResult, caseVars, resourceVars, startup,
                   publisher, publishResult, shutdown, setup>>

IsExpired ==
    /\ tokenCase.called
    /\ tokenCase.raised = NoExc
    /\ tokenCase' = [tokenCase EXCEPT
                        !.expired = IF is_expired(tokenCase.value, now) THEN "true" ELSE "false",
                        !.checkedAt = now]
    /\ UNCHANGED <<users, tokens, now, uuidCount, pipelineVars, handlerVars, closeResult, caseVars, resourceVars, startup,
                   publisher, publishResult, shutdown, setup>>

NextToken ==
    \/ \E token_id \in TokenIds, user_id \in TokenUserIds, access_token \in TokenAccessStrings, expires_at \in ExpiryValues :
          ConstructToken(token_id, user_id, access_token, expires_at)
    \/ IsExpired
    \/ Tick

SpecToken == InitWith({}) /\ [][NextToken]_vars

(***************************************************************************)
(* Properties of the command pipeline (specification Spec).                *)
(***************************************************************************)
SettleCalls(w) == {cb[w].calls[i] : i \in DOMAIN cb[w].calls}

\* a CreateUserCommand envelope carrying name, email and password
WellFormedCreate(body) ==
    /\ body.utf8
    /\ body.json = "object"
    /\ body.type = "CreateUserCommand"
    /\ body.data.present
    /\ {"name", "email", "password"} \subseteq body.data.has

\* the users worker w has run callback on a well-formed CreateUserCommand
\* and is about to send its settlement
CreateProcessed(w) ==
    /\ ContextOf(w) = "users"
    /\ wpc[w] = "settle"
    /\ WellFormedCreate(unacked[w].body)

\* C1 -- a well-formed CreateUserCommand is acknowledged only when the
\* create-user handler completed successfully and a User was persisted;
\* when hashing, repository acquisition or the handler raised, the message
\* is rejected with requeue=false and not acknowledged.
AckOnlyAfterUserPersisted ==
    \A w \in Workers :
        CreateProcessed(w) =>
            /\ Ack \in SettleCalls(w) =>
                   /\ cb[w].handlerCalled
                   /\ cb[w].handlerRaised = NoExc
                   /\ cb[w].added # {}
            /\ cb[w].swallowed \in {"hashing", "repository", "handler"} =>
                   cb[w].calls = <<Nack(FALSE)>>

\* C2 -- a body that is not UTF-8 text or not JSON is rejected with
\* requeue=false and never acknowledged, by the users and by the auth
\* callback; no handler runs, nothing is written, and the callback returns
\* normally to the consume loop.
MalformedBodyRejected ==
    \A w \in Workers :
        (wpc[w] = "settle" /\ (~unacked[w].body.utf8 \/ unacked[w].body.json = "invalid")) =>
            /\ cb[w].calls = <<Nack(FALSE)>>
            /\ ~cb[w].handlerCalled
            /\ cb[w].saveCalls = 0
            /\ cb[w].added = {}
            /\ cb[w].raised = NoExc
            /\ ENABLED Settle(w)

\* the users callback has handled a non-JSON body while the auth callback
\* has handled a non-UTF-8 body
MalformedBodyHandled ==
    /\ wpc["u1"] = "settle" /\ unacked["u1"].body = BadJson
    /\ wpc["a1"] = "settle" /\ unacked["a1"].body = BadUtf8

\* a CreateUserCommand envelope that carries an externally supplied id
CarriesSuppliedId(body) ==
    /\ WellFormedCreate(body)
    /\ "user_id" \in body.data.has
    /\ ~Falsy(body.data.user_id)

\* the rows of table 'users' that stem from a CreateUserCommand envelope
UsersCreatedFrom(body) ==
    {u \in users : u.id = body.data.user_id \/ u.email = StrLower(body.data.email)}

AnaEndToEnd ==
    /\ AllConsumed => \E u \in users : u.email = AnaLower
    /\ (loginResult.called /\ loginResult.command = LoginCommand(AnaEmail, "secret123")) =>
           /\ loginResult.raised = NoExc
           /\ loginResult.ret # ""
    /\ (validateResult.called /\ validateResult.stored # TokenModel(NoToken)
           /\ ~validateResult.expired) =>
           /\ validateResult.raised = NoExc
           /\ validateResult.value.is_valid
           /\ \E u \in users : u.email = AnaLower /\ validateResult.value.user_id = u.id

(***************************************************************************)
(* Properties of the auth handlers (specification SpecAuth).               *)
(***************************************************************************)
LoginCalls == {loginResult.calls[i] : i \in DOMAIN loginResult.calls}

\* the injected collaborators of the last login all returned normally and
\* both databases answered
CollaboratorsReturned ==
    /\ loginResult.lookup = "found"
    /\ loginResult.verdict = "true"
    /\ ~loginResult.generated.raises
    /\ loginResult.generated.value # ""
    /\ loginResult.calculate_expires_fn # "raises"

\* C5 -- when get_by_email returns a user and the verifier accepts the
\* password (the token generator and the expiry calculator returning, the
\* token table accepting the row), handle_login_user persists exactly one
\* Token with that user's id and the generated string, and returns that
\* string.
LoginPersistsOneToken ==
    (loginResult.called /\ CollaboratorsReturned
        /\ ~("save" \in LoginCalls /\ loginResult.raised.type = "RuntimeError")) =>
        /\ loginResult.raised = NoExc
        /\ loginResult.ret = loginResult.generated.value
        /\ Cardinality(loginResult.added) = 1
        /\ \A r \in loginResult.added :
               /\ r.user_id = loginResult.user.id
               /\ r.access_token = loginResult.generated.value

\* C6 -- an unknown email and a known email with a wrong secret raise the
\* same error kind with the same message and persist no Token: in the call
\* last made, and for any two such logins run against the same tables.
NoAccountEnumeration ==
    /\ (loginResult.called /\ (loginResult.lookup = "none" \/ loginResult.verdict = "false")) =>
           /\ loginResult.raised = Exc("ValueError", "Credenciales invalidas.")
           /\ loginResult.added = {}
    /\ \A v \in {"dummy_verify_password", "mock_verify_password", "returns_false"} :
          \A runs \in {{handle_login_user(c, users, tokens, now, v, Returned("tokA"),
                                          "mock_calculate_expires",
                                          Uuid(uuidCount + 1), TRUE, TRUE) :
                           c \in LoginCommands}} :
              \A unknown \in runs, wrong \in runs :
                  (unknown.lookup = "none" /\ wrong.verdict = "false") =>
                      /\ unknown.raised = wrong.raised
                      /\ unknown.ret = wrong.ret
                      /\ unknown.rows = tokens
                      /\ wrong.rows = tokens

\* a login for a registered email with a wrong secret was refused, while a
\* token of an earlier login is on record
WrongSecretRefused ==
    /\ loginResult.called
    /\ loginResult.command = LoginCommand(AnaLower, "wrong")
    /\ loginResult.verify_password_fn = "dummy_verify_password"
    /\ loginResult.verdict = "false"
    /\ loginResult.raised.type = "ValueError"
    /\ tokens # {}

\* the failing runs: lookup error, unknown email, secret mismatch, verifier
\* error, generator failure or empty token, expiry-calculation failure,
\* Token construction failure
ListedLoginFailure ==
    \/ loginResult.lookup \in {"raised", "none"}
    \/ loginResult.verdict \in {"false", "raised"}
    \/ /\ loginResult.verdict = "true"
       /\ \/ loginResult.generated.raises
          \/ loginResult.generated.value = ""
          \/ loginResult.calculate_expires_fn = "raises"
          \/ Token(Uuid(1), loginResult.user.id, loginResult.generated.value,
                   ApplyExpiresFn(loginResult.calculate_expires_fn, ExpiryHours, now).value,
                   now).raised # NoExc

\* C7 -- on every failing run of handle_login_user of those kinds no Token
\* is persisted and token_repository.save is not called; on every
\* successful run save is called exactly once.
TokenSavedOnlyOnSuccess ==
    loginResult.called =>
        /\ ListedLoginFailure =>
               /\ loginResult.raised # NoExc
               /\ "save" \notin LoginCalls
               /\ loginResult.added = {}
        /\ loginResult.raised = NoExc =>
               /\ Cardinality({i \in DOMAIN loginResult.calls :
                                  loginResult.calls[i] = "save"}) = 1
               /\ Cardinality(loginResult.added) = 1

\* a login with right credentials failed in the Token constructor, on the
\* empty string the generator returned
EmptyTokenRefused ==
    /\ loginResult.called
    /\ loginResult.verdict = "true"
    /\ ~loginResult.generated.raises
    /\ loginResult.generated.value = ""
    /\ loginResult.raised.type = "ValueError"
    /\ loginResult.uuidDrawn = 1

\* C8 -- with the SQLAlchemy token repository and its database available,
\* handle_validate_token returns {is_valid: true, user_id, expires_at in
\* ISO-8601} for a persisted token that has not expired, and returns null
\* without raising for an unknown string and for a persisted token whose
\* expiry has passed.
ValidateNeverRaises ==
    (validateResult.called /\ validateResult.dbOk) =>
        /\ validateResult.raised = NoExc
        /\ IF validateResult.stored # TokenModel(NoToken) /\ ~validateResult.expired
           THEN /\ ~validateResult.value.is_null
                /\ validateResult.value.is_valid
                /\ validateResult.value.user_id = validateResult.stored.user_id
                /\ validateResult.value.expires_at.t = validateResult.stored.expires_at.t
           ELSE validateResult.value = NullResult

(***************************************************************************)
(* Properties of handle_create_user (specification SpecCreate).            *)
(***************************************************************************)
HashFnReturns == createResult.hash_password_fn \in {"dummy_hasher", "dummy_hash_password"}

\* C9 -- an email that fails validation: ValueError and save is not
\* called; valid input: save is called exactly once with a User whose email
\* is the lowercased input email, and the call returns that user's id; a
\* failing save: RuntimeError and no User persisted.
CreateUserContract ==
    createResult.called =>
        /\ ~is_valid_email(createResult.command.email) =>
               /\ createResult.raised.type = "ValueError"
               /\ createResult.saveCalls = 0
               /\ createResult.added = {}
        /\ (is_valid_email(createResult.command.email) /\ HashFnReturns) =>
               /\ createResult.saveCalls = 1
               /\ createResult.saved.email = StrLower(createResult.command.email)
               /\ createResult.raised = NoExc =>
                      /\ createResult.ret = createResult.saved.id
                      /\ createResult.added = {createResult.saved}
               /\ ~createResult.dbOk => createResult.raised # NoExc
               /\ createResult.raised # NoExc =>
                      /\ createResult.raised.type = "RuntimeError"
                      /\ createResult.added = {}

\* a user was created from a mixed-case email after a save had failed on
\* a duplicate or an unavailable database
MixedCaseEmailSaved ==
    /\ createResult.called
    /\ createResult.command.email = AnaEmail
    /\ createResult.raised = NoExc
    /\ createResult.saveCalls = 1
    /\ \E u \in users : u.email = AnaLower /\ u.id = createResult.ret
    /\ Cardinality(users) = 2

\* C10 -- handle_create_user persists and returns the command's user_id
\* when one is supplied, and generates a fresh identifier only when none
\* is supplied.
SuppliedIdIsKept ==
    (createResult.called /\ createResult.raised = NoExc) =>
        IF Falsy(createResult.command.user_id)
        THEN createResult.ret.src = "uuid4"
        ELSE /\ createResult.ret = createResult.command.user_id
             /\ createResult.saved.id = createResult.command.user_id

(***************************************************************************)
(* Property of worker startup (specification SpecStartup).                 *)
(***************************************************************************)
StartupWithinPolicy(w) ==
    LET st == startup[w] IN
    /\ st.attempt <= max_retries
    /\ st.sleeps = IF st.pc = "sleeping" THEN st.attempt
                   ELSE IF st.attempt = 0 THEN 0 ELSE st.attempt - 1
    /\ st.sleeps * retry_delay <= (max_retries - 1) * retry_delay
    /\ st.pc = "sleeping" => st.attempt < max_retries
    /\ st.pc = "failed" => (st.raised # NoExc /\ wpc[w] # "consuming")
    /\ (st.pc = "failed" /\ st.raised.type = "AMQPConnectionError") =>
           (st.attempt = max_retries /\ st.sleeps = max_retries - 1)
    /\ wpc[w] = "consuming" => (st.pc = "consuming" /\ st.raised = NoExc)

\* C11 -- startup makes at most max_retries connection attempts, sleeps
\* retry_delay once between two consecutive failed attempts and not after
\* the last, makes no further attempt after the first success, raises
\* without entering the consume loop when every attempt failed, and always
\* terminates, consuming or failed.
StartupRetriesAndTerminates ==
    /\ [](\A w \in Workers : StartupWithinPolicy(w))
    /\ [][\A w \in Workers :
             startup[w].pc \in {"connected", "consuming", "setup_failed", "failed"} =>
                 /\ startup'[w].attempt = startup[w].attempt
                 /\ startup'[w].sleeps = startup[w].sleeps]_vars
    /\ <>(\A w \in Workers : startup[w].pc \in {"consuming", "setup_failed", "failed"})

\* one worker gave up after its last attempt while another consumes after
\* two failed attempts
StartupExhaustedAndRecovered ==
    /\ startup["u1"] = StartupState("failed", max_retries, max_retries - 1,
                                    Exc("AMQPConnectionError", "connection refused"))
    /\ wpc["u1"] = "stopped"
    /\ startup["a1"] = StartupState("consuming", 3, 2, NoExc)
    /\ wpc["a1"] = "consuming"

(***************************************************************************)
(* Property of the publishers (specification SpecPublish).                 *)
(***************************************************************************)
CallsTo(name, calls) == Cardinality({i \in 1..Len(calls) : calls[i] = name})

\* C12 -- a publish call opens at most one connection and publishes at
\* most once, never sleeps or retries, and either returns with exactly its
\* one envelope appended to the context's queue or raises RuntimeError with
\* nothing handed to the broker; no other exception type escapes.
PublishOnceOrRuntimeError ==
    /\ [](publishResult.called =>
            /\ CallsTo("BlockingConnection", publishResult.calls) <= 1
            /\ CallsTo("basic_publish", publishResult.calls) <= 1
            /\ CallsTo("sleep", publishResult.calls) = 0
            /\ publishResult.raised = NoExc =>
                   publishResult.sent = <<publishResult.envelope>>
            /\ publishResult.raised # NoExc =>
                   (publishResult.raised.type = "RuntimeError" /\ publishResult.sent = <<>>))
    /\ [][\A ctx \in Contexts :
             /\ publishResult'.raised # NoExc => queues' = queues
             /\ queues'[ctx] # queues[ctx] =>
                   /\ publishResult'.called /\ publishResult'.ctx = ctx
                   /\ publishResult'.raised = NoExc
                   /\ queues'[ctx] = Append(queues[ctx], Msg(publishResult'.envelope, FALSE))]_vars

\* a publish call opened its connection, declared the queue and handed
\* its one envelope to the broker
PublishedOnce ==
    /\ publishResult.called /\ publishResult.ctx = "users"
    /\ publishResult.raised = NoExc
    /\ publishResult.calls = <<"BlockingConnection", "channel", "queue_declare", "basic_publish">>
    /\ published = 1
    /\ Len(queues["users"]) = 1
    /\ queues["users"][1].body = AnaBody

\* a publish call ended in RuntimeError after its single connection attempt
PublishRefused ==
    /\ publishResult.called
    /\ publishResult.raised = Exc("RuntimeError", "No se pudo conectar a RabbitMQ")
    /\ publishResult.calls = <<"BlockingConnection">>
    /\ queues["users"] = <<>> /\ queues["auth"] = <<>>

(***************************************************************************)
(* Property of an interrupted worker (specification SpecWorkersRun).       *)
(***************************************************************************)
InterruptedInCallback(w) == wpc[w] \in {"callback", "settle"} /\ wpc'[w] = "stopped"

\* C13 -- when a worker is interrupted while its callback holds a delivery,
\* neither the callback nor the shutdown path settles it: no ack, nack or
\* reject is issued, the message is back on its queue marked redelivered,
\* no row was written by the step, and the broker delivers it again once
\* workers consume.
InterruptedDeliveryRedelivered ==
    /\ [][\A w \in Workers : InterruptedInCallback(w) =>
             /\ \A i \in DOMAIN shutdown'[w] : shutdown'[w][i].call \notin SettlementCalls
             /\ queues'[ContextOf(w)] =
                    <<Msg(unacked[w].body, TRUE)>> \o queues[ContextOf(w)]
             /\ unacked'[w] = NoMsg
             /\ users' = users]_vars
    /\ \A ctx \in Contexts :
          (queues[ctx] # <<>> /\ Head(queues[ctx]).redelivered)
             ~> (\E w \in Workers : ContextOf(w) = ctx /\ unacked[w].redelivered)

\* a users worker was interrupted while its callback held Ana's message;
\* both users workers run again and u1 holds that message, redelivered
InterruptedThenRedelivered ==
    /\ interrupts = 1
    /\ shutdown["u2"] = <<>> /\ wpc["u2"] = "consuming" /\ unacked["u2"].none
    /\ wpc["u1"] = "callback"
    /\ unacked["u1"] = Msg(AnaBody, TRUE)

(***************************************************************************)
(* Failure handling inside handle_login_user (specification SpecAuth).     *)
(***************************************************************************)
\* C14 -- when the token generator raises or returns the empty string,
\* handle_login_user raises RuntimeError, not ValueError, and persists no
\* Token.
GeneratorFailureIsInfrastructureError ==
    (/\ loginResult.called
     /\ "generate_token_fn" \in LoginCalls
     /\ (loginResult.generated.raises \/ loginResult.generated.value = "")) =>
        /\ loginResult.raised.type = "RuntimeError"
        /\ loginResult.added = {}

\* C15 -- a verifier that raises, whatever the exception's type, makes
\* handle_login_user raise RuntimeError and never the ValueError of invalid
\* credentials; after a lookup that found the user, that ValueError is
\* raised only when the verifier returned false.
VerifierFailureIsInfrastructureError ==
    loginResult.called =>
        /\ loginResult.verdict = "raised" => loginResult.raised.type = "RuntimeError"
        /\ (loginResult.lookup = "found" /\ "generate_token_fn" \notin LoginCalls
               /\ loginResult.raised.type = "ValueError") =>
              loginResult.verdict = "false"

\* C16 -- the expiry that handle_login_user gets from the application's
\* calculate_expires_at(1) is timezone-aware and later than the clock, so
\* the Token is constructed from it and handed to the repository.
AppExpiryBuildsToken ==
    (/\ loginResult.called
     /\ loginResult.calculate_expires_fn = "calculate_expires_at"
     /\ CollaboratorsReturned) =>
        /\ \A expires \in {ApplyExpiresFn("calculate_expires_at", ExpiryHours, now)} :
              /\ expires.raised = NoExc
              /\ expires.value.aware
              /\ expires.value.t > now
        /\ loginResult.raised.type \notin {"TypeError", "ValueError"}
        /\ loginResult.saved # NoToken
        /\ "save" \in LoginCalls

(***************************************************************************)
(* Properties of the Token entity (specification SpecToken).               *)
(***************************************************************************)
TokenFieldsGiven ==
    /\ ~Falsy(tokenCase.args.token_id)
    /\ ~Falsy(tokenCase.args.user_id)
    /\ tokenCase.args.access_token # ""
    /\ ~tokenCase.args.expires_at.none

TokenWithExpiry(expires_at) ==
    [id |-> Uuid(1), user_id |-> ExtId(1), access_token |-> "tokA", expires_at |-> expires_at]

\* C17 -- neither constructing a Token nor is_expired() raises over a
\* naive expires_at: both read it as UTC, so the constructor accepts a naive
\* expiry exactly when it would accept the same instant made aware.
NaiveExpiryReadAsUtc ==
    /\ (tokenCase.called /\ TokenFieldsGiven /\ ~tokenCase.args.expires_at.aware) =>
           /\ tokenCase.raised.type # "TypeError"
           /\ (tokenCase.raised = NoExc) <=> (tokenCase.args.expires_at.t > tokenCase.at)
    /\ \A e \in ExpiryValues \ {NoTime} :
           is_expired(TokenWithExpiry(e), now) = is_expired(TokenWithExpiry(ReplaceTzUtc(e)), now)

TokenConstructionContract ==
    tokenCase.called =>
        /\ tokenCase.raised = NoExc =>
              /\ TokenFieldsGiven
              /\ tokenCase.args.expires_at.t > tokenCase.at
              /\ tokenCase.value.expires_at = tokenCase.args.expires_at
        /\ ~(TokenFieldsGiven /\ tokenCase.args.expires_at.t > tokenCase.at) =>
              /\ tokenCase.raised.type = "ValueError"
              /\ tokenCase.value = NoToken

(***************************************************************************)
(* Order of the collaborator calls in handle_login_user (SpecAuth).        *)
(***************************************************************************)
LoginOrder == <<"get_by_email", "verify_password_fn", "generate_token_fn", "calculate_expires_fn", "save">>

LoginTokenValidUntilExpiry ==
    (/\ validateResult.called /\ validateResult.dbOk
     /\ validateResult.stored \in tokens) =>
        IF now < validateResult.stored.expires_at.t
        THEN /\ validateResult.raised = NoExc
             /\ validateResult.value.is_valid
             /\ validateResult.value.user_id = validateResult.stored.user_id
             /\ \E u \in users : u.id = validateResult.value.user_id
        ELSE /\ validateResult.raised = NoExc
             /\ validateResult.value = NullResult

\* C22 -- handle_validate_token calls neither save nor delete on the token
\* repository and leaves table 'tokens' as it found it, whether the string
\* is unknown, held by a live token or held by an expired one.
ValidateIsReadOnly ==
    /\ [](validateResult.called =>
            \A i \in DOMAIN validateResult.calls :
                validateResult.calls[i] \notin {"save", "delete"})
    /\ [][(validateResult'.called /\ validateResult' # validateResult) =>
              /\ tokens' = tokens
              /\ validateResult'.calls = <<"find_by_access_token">>]_vars

\* the string of an expired token was queried, the query failed and the
\* expired row is still in the table
ExpiredRowKept ==
    /\ validateResult.called /\ validateResult.dbOk
    /\ validateResult.expired
    /\ validateResult.stored \in tokens
    /\ validateResult.stored.expires_at.t <= now

(***************************************************************************)
(* Order of the startup calls (specification SpecStartup).                 *)
(***************************************************************************)
StartupRank(call) ==
    CASE call = "create_tables" -> 0
      [] call = "BlockingConnection" -> 1
      [] call = "channel" -> 2
      [] call = "queue_declare(durable=True)" -> 3
      [] call = "basic_qos(prefetch_count=1)" -> 4
      [] call = "basic_consume(auto_ack=False)" -> 5
      [] call = "start_consuming" -> 6
      [] OTHER -> 7

\* C23 -- the calls of a starting worker come in the order create_tables,
\* connection attempts, channel, durable queue_declare, basic_qos with
\* prefetch 1, basic_consume without auto-ack, start_consuming, none of
\* the later ones twice and none before all the earlier ones; a worker
\* holds a delivery only after it has made all of them.
StartupInFixedOrder ==
    \A w \in Workers :
        LET made == setup[w] IN
        /\ \A i \in DOMAIN made :
              /\ StartupRank(made[i]) <= 6
              /\ i = 1 => made[i] = "create_tables"
              /\ i > 1 =>
                    \/ StartupRank(made[i]) = StartupRank(made[i - 1]) + 1
                    \/ made[i] = "BlockingConnection" /\ made[i - 1] = "BlockingConnection"
        /\ (wpc[w] \in {"consuming", "callback", "settle"} \/ ~unacked[w].none) =>
              (made # <<>> /\ made[Len(made)] = "start_consuming")

\* worker u1 connected at its third attempt, made every setup call and
\* holds the message that waited on the queue
ConsumingAfterFullSetup ==
    /\ startup["u1"].pc = "consuming" /\ startup["u1"].attempt = 3
    /\ Len(setup["u1"]) = 9
    /\ wpc["u1"] = "callback"
    /\ unacked["u1"] = Msg(AnaBody, FALSE)

(***************************************************************************)
(* Shutdown of an interrupted worker (specification Spec).                 *)
(***************************************************************************)
\* C24 -- an interrupted worker stops consuming, then its channel is
\* closed, then its connection, each once, and start_consuming returns;
\* from then on it holds no delivery and none is handed to its callback
\* for as long as it stays stopped.
OrderlyShutdown ==
    /\ [](\A w \in Workers : wpc[w] = "stopped" =>
            /\ Len(shutdown[w]) = 2
            /\ shutdown_effects(shutdown[w][1].call) \o shutdown_effects(shutdown[w][2].call)
                  = <<"consumer cancelled", "channel closed", "connection closed">>
            /\ unacked[w].none
            /\ cb[w] = NoCb)
    /\ [][\A w \in Workers : wpc[w] = "stopped" =>
             /\ unacked'[w].none
             /\ wpc'[w] \in {"stopped", "consuming"}]_vars

\* worker u1 has shut down while a message waits on its queue and the
\* other users worker is busy: the message stays where it is
StoppedWorkerGetsNothing ==
    /\ wpc["u1"] = "stopped"
    /\ shutdown["u1"] = shutdown_path("users")
    /\ wpc["u2"] \in {"callback", "settle"}
    /\ queues["users"] # <<>>

\* C25 -- a publish call opens a connection exactly when the publisher
\* holds none that is open (never connected, or closed) and makes no
\* connection call otherwise; the queue it declares is its context's queue,
\* durable, and what it sends goes to that queue with delivery mode 2.
LazyConnectDurablePersistent ==
    /\ [](publishResult.called =>
            /\ (publishResult.held = "open") <=>
                   (CallsTo("BlockingConnection", publishResult.calls) = 0)
            /\ (publishResult.held \in {"none", "closed"}) <=>
                   (CallsTo("BlockingConnection", publishResult.calls) = 1)
            /\ CallsTo("queue_declare", publishResult.calls) > 0 =>
                   /\ publishResult.declared.durable
                   /\ publishResult.declared.queue = QueueOf(publishResult.ctx)
            /\ publishResult.sent # <<>> =>
                   /\ publishResult.properties.delivery_mode = 2
                   /\ publishResult.properties.exchange = ""
                   /\ publishResult.properties.routing_key = QueueOf(publishResult.ctx))
    /\ [][\A ctx \in Contexts :
             (publishResult'.called /\ publishResult'.ctx # ctx) =>
                 queues'[ctx] = queues[ctx]]_vars

\* a second publish went out on the connection the first one opened
PublishedOnHeldConnection ==
    /\ publishResult.called /\ publishResult.raised = NoExc
    /\ publishResult.held = "open"
    /\ publishResult.calls = <<"basic_publish">>
    /\ published = 2
    /\ Len(queues[publishResult.ctx]) = 2

UnknownType(body) ==
    body.utf8 /\ body.json = "object" /\ body.type # "CreateUserCommand"

\* C27 -- a JSON envelope whose type is not CreateUserCommand is not
\* dispatched by the users worker: handle_create_user is not called, table
\* 'users' is left as it was, the callback's only settlement call is
\* basic_ack, and when that call settles the delivery the message is on no
\* queue and with no worker.
UnknownTypeAckedNotDispatched ==
    /\ [](\A w \in Workers :
            (ContextOf(w) = "users" /\ wpc[w] = "settle" /\ UnknownType(unacked[w].body)) =>
                /\ cb[w].calls = <<Ack>>
                /\ ~cb[w].handlerCalled
                /\ cb[w].swallowed = "none"
                /\ cb[w].saveCalls = 0
                /\ cb[w].added = {}
                /\ cb[w].raised = NoExc)
    /\ [][\A w \in Workers :
             (ContextOf(w) = "users" /\ UnknownType(unacked[w].body)) =>
                 /\ (wpc[w] = "callback" /\ wpc'[w] = "settle") => users' = users
                 /\ (wpc[w] = "settle" /\ wpc'[w] = "consuming") =>
                        /\ queues' = queues
                        /\ unacked'[w].none]_vars

\* a users worker has run its callback on a RegisterUserCommand envelope
\* that carries a name, an email and a password, while the table is empty
UnknownTypeHandled ==
    /\ wpc["u1"] = "settle"
    /\ unacked["u1"].body.type = "RegisterUserCommand"
    /\ {"name", "email", "password"} \subseteq unacked["u1"].body.data.has
    /\ cb["u1"].calls = <<Ack>>
    /\ users = {}

\* a CreateUserCommand envelope whose "data" is absent or lacks a name, an
\* email or a password
MalformedCreate(body) ==
    /\ body.utf8
    /\ body.json = "object"
    /\ body.type = "CreateUserCommand"
    /\ ~WellFormedCreate(body)

\* C28 -- a CreateUserCommand envelope whose data is absent or lacks a
\* name, an email or a password is rejected by the users worker with
\* requeue=false and not acknowledged, and no User is written, whichever
\* field is missing.
MalformedCreateRejected ==
    \A w \in Workers :
        (ContextOf(w) = "users" /\ wpc[w] = "settle" /\ MalformedCreate(unacked[w].body)) =>
            /\ cb[w].calls = <<Nack(FALSE)>>
            /\ ~cb[w].handlerCalled
            /\ cb[w].saveCalls = 0
            /\ cb[w].added = {}

\* C28, the part that holds: no User is written for such an envelope
\* whichever field is missing, and it is rejected with requeue=false when
\* the data is absent or lacks the name (a missing email is reached only
\* after the password has been hashed).
MalformedCreateWritesNothing ==
    \A w \in Workers :
        (ContextOf(w) = "users" /\ wpc[w] = "settle" /\ MalformedCreate(unacked[w].body)) =>
            /\ ~cb[w].handlerCalled
            /\ cb[w].saveCalls = 0
            /\ cb[w].added = {}
            /\ (~unacked[w].body.data.present
                    \/ "name" \notin unacked[w].body.data.has) =>
                   cb[w].calls = <<Nack(FALSE)>>

\* the callback has acknowledged a CreateUserCommand that has no password
MissingPasswordAcked ==
    /\ wpc["u1"] = "settle"
    /\ MalformedCreate(unacked["u1"].body)
    /\ "password" \notin unacked["u1"].body.data.has
    /\ cb["u1"].calls = <<Ack>>
    /\ cb["u1"].swallowed = "hashing"

\* C29 -- with two workers on the user_commands queue and one on the
\* auth_commands queue, a worker never holds more than prefetch_count = 1
\* unsettled delivery, its callback runs only for the delivery it holds,
\* and the broker hands a message only to a worker that holds none and
\* waits in its consume loop: a worker in its callback keeps the delivery
\* it has until it settles it or its connection closes.
OneDeliveryPerWorker ==
    /\ [](\A w \in Workers :
            /\ Unsettled(w) <= prefetch_count
            /\ wpc[w] \in {"callback", "settle"} => Unsettled(w) = 1
            /\ wpc[w] = "consuming" => Unsettled(w) = 0)
    /\ [][\A ctx \in Contexts :
             Len(queues'[ctx]) < Len(queues[ctx]) =>
                 \E w \in Workers :
                     /\ ContextOf(w) = ctx
                     /\ wpc[w] = "consuming" /\ Unsettled(w) = 0
                     /\ wpc'[w] = "callback"
                     /\ unacked'[w] = Head(queues[ctx])
                     /\ \A v \in Workers \ {w} : unacked'[v] = unacked[v] /\ wpc'[v] = wpc[v]]_vars
    /\ [][\A w \in Workers :
             (wpc[w] \in {"callback", "settle"} /\ ~unacked'[w].none) =>
                 unacked'[w] = unacked[w]]_vars

\* both users workers hold one delivery each: one is in its callback, the
\* other is about to settle
BothUsersWorkersBusy ==
    /\ wpc["u1"] = "callback" /\ Unsettled("u1") = 1
    /\ wpc["u2"] = "settle" /\ Unsettled("u2") = 1
    /\ queues["users"] = <<>>

\* a message waits on the user_commands queue while the only running users
\* worker is busy with another
BusyWorkerLeavesMessageWaiting ==
    /\ wpc["u1"] = "settle" /\ Unsettled("u1") = 1
    /\ wpc["u2"] = "stopped"
    /\ queues["users"] # <<>>

LoginFindsCaseVariant ==
    (/\ loginResult.called
     /\ \E u \in users :
           /\ u.email = StrLower(loginResult.command.email)
           /\ u.email # loginResult.command.email
           /\ ApplyVerifyFn(loginResult.verify_password_fn, loginResult.command.password,
                            u.hashed_password) = [raised |-> NoExc, value |-> TRUE]
     /\ ~loginResult.generated.raises
     /\ loginResult.generated.value # ""
     /\ loginResult.calculate_expires_fn = "mock_calculate_expires"
     /\ loginResult.lookup # "raised"
     /\ ~("save" \in LoginCalls /\ loginResult.raised.type = "RuntimeError")) =>
        /\ loginResult.raised = NoExc
        /\ loginResult.ret = loginResult.generated.value

\* the login with the stored spelling of the same email succeeded, so the
\* account, the password and the collaborators are in order
LoginWithStoredSpellingSucceeds ==
    /\ loginResult.called
    /\ loginResult.command = LoginCommand(AnaLower, "secret123")
    /\ loginResult.verify_password_fn = "dummy_verify_password"
    /\ loginResult.calculate_expires_fn = "mock_calculate_expires"
    /\ loginResult.raised = NoExc
    /\ loginResult.ret = "tokA"

\* the generator returned a non-empty string and the expiry calculator
\* returned a time one hour ahead, naive or aware
RegisterCollaboratorsReturned ==
    /\ registerResult.called
    /\ ~registerResult.generated.raises
    /\ registerResult.generated.value # ""
    /\ registerResult.calculate_expires_fn \in {"calculate_expires_at", "mock_calculate_expires"}

\* C32 -- handle_register_user_for_auth_context, given a generator that
\* returns a non-empty string and an expiry calculator that returns a time
\* one hour ahead, naive or aware, saves exactly one Token with the given
\* user_id and the generated access_token and returns that access_token;
\* when save fails it raises RuntimeError after exactly one save attempt;
\* an empty generated token raises ValueError and save is not called.
RegisterSavesOneToken ==
    /\ (RegisterCollaboratorsReturned /\ registerResult.saveOk /\ ~registerResult.duplicate) =>
           /\ registerResult.raised = NoExc
           /\ registerResult.ret = registerResult.generated.value
           /\ Cardinality(registerResult.added) = 1
           /\ \A r \in registerResult.added :
                  /\ r.user_id = registerResult.user_id
                  /\ r.access_token = registerResult.generated.value
    /\ (RegisterCollaboratorsReturned /\ ~registerResult.saveOk) =>
           /\ registerResult.raised.type = "RuntimeError"
           /\ Cardinality({i \in DOMAIN registerResult.calls :
                              registerResult.calls[i] = "save"}) = 1
           /\ registerResult.added = {}
    /\ (registerResult.called /\ ~registerResult.generated.raises
            /\ registerResult.generated.value = "") =>
           /\ registerResult.raised.type = "ValueError"
           /\ "save" \notin {registerResult.calls[i] : i \in DOMAIN registerResult.calls}
           /\ registerResult.added = {}

\* C32, with the expiry calculator returning an aware time: the three
\* cases of RegisterSavesOneToken hold.
RegisterSavesOneTokenAwareExpiry ==
    registerResult.calculate_expires_fn # "calculate_expires_at" => RegisterSavesOneToken

\* a registration with an aware expiry saved its token next to an earlier one
RegisteredWithAwareExpiry ==
    /\ registerResult.called
    /\ registerResult.calculate_expires_fn = "mock_calculate_expires"
    /\ registerResult.raised = NoExc
    /\ registerResult.ret = "tokB"
    /\ Cardinality(tokens) = 2

\* the maximum number of connection attempts the environment asks for:
\* the configured value, 5 when the variable is unset
ConfiguredMaxAttempts ==
    IF environ.max_retries.set THEN environ.max_retries.value ELSE max_retries

\* C33 -- the workers take their maximum number of connection attempts
\* from the environment and use 5 only when it is unset: a worker makes at
\* most the configured number of connection attempts.
AttemptsWithinConfiguredMaximum ==
    \A w \in Workers : startup[w].attempt <= ConfiguredMaxAttempts

\* C33, the unset case: with no variable set a worker makes at most 5
\* attempts.
AttemptsWithinDefaultMaximum ==
    ~environ.max_retries.set => AttemptsWithinConfiguredMaximum

\* a worker makes its fifth attempt although the environment asks for two
FifthAttemptDespiteEnvironment ==
    /\ environ.max_retries = EnvValue(ConfiguredRetries)
    /\ startup["u1"].pc = "connecting"
    /\ startup["u1"].attempt = max_retries

\* the characters \s matches, among those used here
SpaceChars == {" ", "\t", "\n"}

\* the spec's pattern ^[^@\s]+@[^@\s]+\.[a-zA-Z]{2,}$ as re.match applies
\* it ('$' also matches just before a final newline)
MatchesStatedPattern(email) ==
    \E n \in {Len(email), Len(email) - 1} :
        /\ n >= 0
        /\ (n = Len(email) \/ email[Len(email)] = "\n")
        /\ \E at \in 2..n : \E dot \in (at + 2)..(n - 2) :
              /\ email[at] = "@"
              /\ email[dot] = "."
              /\ \A i \in (1..(at - 1)) \cup ((at + 1)..(dot - 1)) :
                     email[i] \notin SpaceChars \cup {"@"}
              /\ AllIn(email, dot + 1, n, Letters)

\* C34 -- the User constructor accepts an email exactly when it matches
\* ^[^@\s]+@[^@\s]+\.[a-zA-Z]{2,}$ and rejects every other email with
\* InvalidEmailError; an accepted email is stored lowercased, and
\* constructing a User from the stored email stores the same email again.
EmailAcceptedIffStatedPattern ==
    (userCase.called /\ userCase.op = "__init__") =>
        /\ (userCase.raised = NoExc) <=> MatchesStatedPattern(userCase.email)
        /\ userCase.raised # NoExc => userCase.raised.type = "InvalidEmailError"
        /\ userCase.raised = NoExc =>
              /\ userCase.user.email = StrLower(userCase.email)
              /\ User(ExtId(1), <<"A">>, userCase.user.email, NoHash).raised = NoExc
              /\ User(ExtId(1), <<"A">>, userCase.user.email, NoHash).value.email
                    = userCase.user.email

\* C34, the part that holds: every accepted email matches the stated
\* pattern, every rejection is an InvalidEmailError, and an accepted email
\* is stored lowercased and is stable under a second construction.
AcceptedEmailMatchesStatedPattern ==
    (userCase.called /\ userCase.op = "__init__") =>
        /\ (userCase.raised = NoExc) => MatchesStatedPattern(userCase.email)
        /\ userCase.raised # NoExc => userCase.raised.type = "InvalidEmailError"
        /\ userCase.raised = NoExc =>
              /\ userCase.user.email = StrLower(userCase.email)
              /\ User(ExtId(1), <<"A">>, userCase.user.email, NoHash).raised = NoExc
              /\ User(ExtId(1), <<"A">>, userCase.user.email, NoHash).value.email
                    = userCase.user.email

\* an email with a capital letter was accepted and stored in lower case
MixedCaseEmailStoredLower ==
    /\ userCase.called /\ userCase.op = "__init__"
    /\ userCase.email = <<"B", "@", "a", ".", "B", "a">>
    /\ userCase.raised = NoExc
    /\ userCase.user.email = <<"b", "@", "a", ".", "b", "a">>

\* the name setter was the last operation on the User
NameSet == userCase.called /\ userCase.op = "name.setter"

\* C35 -- a User's name is never empty or whitespace-only, after
\* construction and after the name setter; the setter raises ValueError
\* for an empty or blank value and otherwise stores the value stripped of
\* surrounding whitespace.
UserNameNeverBlank ==
    /\ userCase.held => str_strip(userCase.user.name) # <<>>
    /\ NameSet =>
          IF str_strip(userCase.name) = <<>>
          THEN userCase.raised.type = "ValueError"
          ELSE /\ userCase.raised = NoExc
               /\ userCase.user.name = str_strip(userCase.name)

\* C35, the setter alone: it raises ValueError for an empty or blank value
\* and leaves the name as it was, and otherwise stores the value stripped,
\* which is neither empty nor blank and has no surrounding whitespace.
NameSetterRejectsBlank ==
    /\ NameSet =>
          IF str_strip(userCase.name) = <<>>
          THEN userCase.raised.type = "ValueError"
          ELSE /\ userCase.raised = NoExc
               /\ userCase.user.name = str_strip(userCase.name)
               /\ userCase.user.name # <<>>
               /\ userCase.user.name[1] \notin Whitespace
               /\ userCase.user.name[Len(userCase.user.name)] \notin Whitespace
    /\ [][(userCase.held /\ userCase'.op = "name.setter" /\ userCase'.raised # NoExc) =>
              userCase'.user = userCase.user]_vars

\* a User was constructed with a whitespace-only name
BlankNameConstructed ==
    /\ userCase.called /\ userCase.op = "__init__"
    /\ userCase.held
    /\ userCase.user.name = <<" ", "\t">>

\* the setter stored a value without the whitespace around it
NameStoredStripped ==
    /\ NameSet
    /\ userCase.name = <<" ", "A", "\t">>
    /\ userCase.raised = NoExc
    /\ userCase.user.name = <<"A">>

SendsOnlyOnDeclaredChannel ==
    [][\A ctx \in Contexts :
             /\ Len(queues'[ctx]) > Len(queues[ctx]) =>
                   /\ publishResult'.called /\ publishResult'.ctx = ctx
                   /\ publishResult'.sent # <<>>
                   /\ publisher'[ctx].connection = "open"
                   /\ publisher'[ctx].channel = "open" /\ publisher'[ctx].declared
                   /\ publisher[ctx].connection = "open" =>
                         (publisher[ctx].channel = "open" /\ publisher[ctx].declared)
             /\ (/\ publisher[ctx].connection = "open"
                 /\ ~(publisher[ctx].channel = "open" /\ publisher[ctx].declared)
                 /\ publishResult'.called /\ publishResult'.ctx = ctx
                 /\ publishResult' # publishResult) =>
                   /\ publishResult'.sent = <<>>
                   /\ publishResult'.raised.type = "RuntimeError"
                   /\ queues' = queues]_vars

\* a publisher that held a closed connection (lost, closed, or left by a
\* call that failed while connecting) has connected anew and sent
SentAfterReconnect ==
    /\ publishResult.called
    /\ publishResult.held = "closed"
    /\ publishResult.sent # <<>>
    /\ publisher[publishResult.ctx].declared

\* a publish on a publisher whose earlier call opened the connection but
\* not the channel was refused without any broker call
HalfOpenPublishRefused ==
    /\ publishResult.called
    /\ publishResult.held = "open"
    /\ publisher[publishResult.ctx].channel = "none"
    /\ publishResult.calls = <<>>
    /\ publishResult.raised.type = "RuntimeError"
    /\ publishResult.sent = <<>>

(***************************************************************************)
(* The life of a worker from the call of start_consuming to its return:    *)
(* the connection loop, the channel setup, the consume loop with its       *)
(* callbacks, and the ways out of it.                                      *)
(***************************************************************************)
\* KeyboardInterrupt reaches a worker that is inside the try block of
\* start_consuming, blocked in channel.start_consuming()
InterruptWorker(w) ==
    /\ wpc[w] \in {"consuming", "callback", "settle"}
    /\ Interrupt(w)

\* (hashing, the repository factory and the database work here: what the
\* callback does when they fail is the subject of Next)
NextLifecycle ==
    \/ NextStartup
    \/ \E w \in Workers : Callback(w, {FALSE}, {TRUE}, {TRUE})
    \/ \E w \in Workers : Settle(w)
    \/ \E w \in Workers : InterruptWorker(w)
    \/ \E w \in Workers : ConsumeLoopError(w)

SpecLifecycle == InitStartup /\ [][NextLifecycle]_vars

\* C38: every broker connection a worker opened is closed by the time
\* start_consuming has returned or raised, whatever the exit path, and
\* close() is never called on a connection that is already closed.
ConnectionsClosedOnExit ==
    \A w \in Workers :
        /\ \A i \in DOMAIN connections[w] : connections[w][i] # "closed again"
        /\ wpc[w] = "stopped" =>
              \A i \in DOMAIN connections[w] : connections[w][i] = "closed"

\* What the code gives: the claim on every exit path that starts inside
\* the try block (interrupt, consume-loop error, declare, qos or consume
\* failure) and on the paths that opened no connection; the connection
\* loop itself is outside the try block.
ConnectionsClosedOnExitFromTryBlock ==
    \A w \in Workers :
        /\ \A i \in DOMAIN connections[w] : connections[w][i] # "closed again"
        /\ (wpc[w] = "stopped" /\ startup[w].pc # "failed") =>
              \A i \in DOMAIN connections[w] : connections[w][i] = "closed"

\* start_consuming has raised out of the connection loop after
\* BlockingConnection returned: the connection it opened is still open
ConnectionLeftOpen ==
    \E w \in Workers :
        /\ wpc[w] = "stopped"
        /\ startup[w].pc = "failed"
        /\ connections[w] = <<"open">>

\* a worker left through an interrupt and another through a failed channel
\* setup, each with its connection closed once
ClosedAfterInterruptAndSetupFailure ==
    \E v, w \in Workers :
        /\ wpc[v] = "stopped" /\ shutdown[v] # <<>> /\ connections[v] = <<"closed">>
        /\ wpc[w] = "stopped" /\ startup[w].pc = "setup_failed"
        /\ connections[w] = <<"closed">>

\* the worker has its connection and channel and has not left start_consuming
Connected(w) == startup[w].pc \in {"connected", "consuming"} /\ wpc[w] # "stopped"

\* the step is the worker's KeyboardInterrupt
InterruptStep(w) == interrupts' = interrupts + 1 /\ shutdown'[w] # <<>>

\* C39: once Connected, a worker reaches Stopped only through process
\* interruption; no error of queue_declare, basic_qos, basic_consume or the
\* consume loop makes start_consuming return normally.
StoppedOnlyByInterrupt ==
    [][\A w \in Workers :
           (Connected(w) /\ wpc'[w] = "stopped") => InterruptStep(w)]_vars

\* What the code gives: a Connected worker stops on an interrupt, or on an
\* error that "except Exception" prints, after which start_consuming
\* returns normally with nothing raised.
StoppedByInterruptOrCaughtError ==
    [][\A w \in Workers :
           (Connected(w) /\ wpc'[w] = "stopped") =>
               \/ InterruptStep(w)
               \/ /\ startup'[w].pc \in {"setup_failed", "loop_failed"}
                  /\ startup'[w].raised = NoExc
                  /\ interrupts' = interrupts
                  /\ shutdown'[w] = <<>>]_vars

\* start_consuming has returned normally after an error of the channel
\* setup, and another worker after an error of the consume loop, neither
\* interrupted
ReturnedNormallyAfterError ==
    \E v, w \in Workers :
        /\ wpc[v] = "stopped" /\ startup[v].pc = "setup_failed"
        /\ startup[v].raised = NoExc /\ shutdown[v] = <<>>
        /\ wpc[w] = "stopped" /\ startup[w].pc = "loop_failed"
        /\ startup[w].raised = NoExc /\ shutdown[w] = <<>>

\* a Connected worker stopped by an interrupt
StoppedByInterrupt ==
    \E w \in Workers :
        wpc[w] = "stopped" /\ startup[w].pc = "consuming" /\ shutdown[w] # <<>>

\* C40: each message the users worker processes uses a storage session of
\* its own, released by the time the message is settled: a worker never
\* holds more than one open session, and none once it waits for the next
\* delivery.
OneSessionPerWorker ==
    \A w \in Workers :
        /\ sessions[w] <= 1
        /\ wpc[w] = "consuming" => sessions[w] = 0

\* What the code gives: every message that reaches the handler gets a new
\* session from create_user_repository, and no step of a running worker
\* releases one.
OwnSessionNeverReleased ==
    [][\A w \in Workers :
           /\ (wpc[w] = "callback" /\ wpc'[w] = "settle" /\ cb'[w].handlerCalled
               /\ ContextOf(w) = "users") => sessions'[w] = sessions[w] + 1
           /\ wpc'[w] # "consuming" \/ wpc[w] # "stopped" => sessions'[w] >= sessions[w]]_vars

\* a users worker has settled two messages and waits for the next one
\* holding the two sessions it created for them
SessionsAccumulate ==
    \E w \in Workers :
        wpc[w] = "consuming" /\ unacked[w].none /\ sessions[w] = 2

====
